---- MODULE Spec2Model ----
(***************************************************************************)
(* Timeline_Reports: a batch run that loads Handshake engagement reports,  *)
(* builds a per-student timeline against enrollment, and derives the CLDC, *)
(* COM1100 and FDS reports.                                                *)
(*                                                                         *)
(* Encoding of data.  A table (pandas DataFrame) is a record               *)
(*   [cols |-> set of column names, rows |-> sequence of rows],            *)
(* a row being a function from the table's columns to cells.  Every cell   *)
(* is a tuple:                                                             *)
(*   - NaN / None / NaT is the empty tuple (read_csv with dtype=str turns  *)
(*     an empty field into NaN, so no cell holds the empty string);        *)
(*   - a string that is sorted, sliced or compared is the tuple of its     *)
(*     characters, a digit being the number 0..9 and any other character   *)
(*     its ASCII code;                                                     *)
(*   - a string that is only tested for equality is <<"the string">>;      *)
(*   - a Timestamp is <<year, month, day>>, a count is <<n>>.              *)
(* None in place of a whole table is the value None below.                 *)
(***************************************************************************)
EXTENDS Integers, Sequences, FiniteSets, TLC

NaN == <<>>
None == [cols |-> {"<None>"}, rows |-> <<>>]

IsNull(v) == v = NaN
Str(s) == <<s>>

(* ---------------- strings as character tuples ---------------- *)

\* Python's str < str: lexicographic on characters, a proper prefix first.
RECURSIVE StrLess(_, _)
StrLess(a, b) ==
    IF b = <<>> THEN FALSE
    ELSE IF a = <<>> THEN TRUE
    ELSE IF Head(a) # Head(b) THEN Head(a) < Head(b)
    ELSE StrLess(Tail(a), Tail(b))

\* s[i:j] of Python for 0 <= i <= j (clipped at the end of the string).
Slice(s, i, j) ==
    IF IsNull(s) THEN NaN
    ELSE SubSeq(s, i + 1, IF j < Len(s) THEN j ELSE Len(s))

\* s[-n:] of Python.
LastChars(s, n) ==
    IF IsNull(s) THEN NaN
    ELSE SubSeq(s, (IF Len(s) > n THEN Len(s) - n ELSE 0) + 1, Len(s))

\* str(n) for 0 <= n <= 9999, and its zero padded forms %Y and %m / %d.
Digits4(n) == <<n \div 1000, (n \div 100) % 10, (n \div 10) % 10, n % 10>>
Digits2(n) == <<(n \div 10) % 10, n % 10>>
IntToStr(n) ==
    IF n < 10 THEN <<n>>
    ELSE IF n < 100 THEN Digits2(n)
    ELSE IF n < 1000 THEN <<n \div 100, (n \div 10) % 10, n % 10>>
    ELSE Digits4(n)

\* int(s) of a string of digits.
RECURSIVE StrToInt(_)
StrToInt(s) ==
    IF s = <<>> THEN 0 ELSE 10 * StrToInt(SubSeq(s, 1, Len(s) - 1)) + s[Len(s)]

(* ---------------- tables ---------------- *)

Table(cs, rs) == [cols |-> cs, rows |-> rs]
EmptyFrame == Table({}, <<>>)

\* df[c] exists / df[[...]] exists: anything else is a KeyError.
HasCols(t, cs) == cs \subseteq t.cols

\* df.loc[:, cs] / df[cs]
Project(t, cs) ==
    Table(cs, [i \in 1..Len(t.rows) |-> [c \in cs |-> t.rows[i][c]]])

\* df[mask]
Filter(t, Keep(_)) == Table(t.cols, SelectSeq(t.rows, Keep))

\* df[c] = f(row)
WithCol(t, c, F(_)) ==
    Table(t.cols \cup {c},
          [i \in 1..Len(t.rows) |->
              [k \in t.cols \cup {c} |-> IF k = c THEN F(t.rows[i]) ELSE t.rows[i][k]]])

\* df.rename(columns={old: new}); a missing old column renames nothing.
RenameCol(t, old, new) ==
    IF old \notin t.cols \/ old = new THEN t
    ELSE Table((t.cols \ {old}) \cup {new},
               [i \in 1..Len(t.rows) |->
                   [k \in (t.cols \ {old}) \cup {new} |->
                       IF k = new THEN t.rows[i][old] ELSE t.rows[i][k]]])

\* One row widened to the columns cs, NaN where it has no value.
Widen(r, have, cs) == [c \in cs |-> IF c \in have THEN r[c] ELSE NaN]

\* pd.concat([a, b]): rows of a then rows of b over the union of the columns.
\* A None operand is dropped silently.
Concat(a, b) ==
    IF b = None THEN a
    ELSE IF a = None THEN b
    ELSE LET cs == a.cols \cup b.cols
         IN Table(cs, [i \in 1..Len(a.rows) |-> Widen(a.rows[i], a.cols, cs)]
                      \o [i \in 1..Len(b.rows) |-> Widen(b.rows[i], b.cols, cs)])

\* Two rows agree on the columns of subset.
SameOn(r1, r2, subset) == \A c \in subset : r1[c] = r2[c]

\* df.drop_duplicates(subset=..., keep="first")
RECURSIVE DropDupRows(_, _, _)
DropDupRows(rs, subset, kept) ==
    IF rs = <<>> THEN kept
    ELSE IF \E i \in 1..Len(kept) : SameOn(kept[i], Head(rs), subset)
         THEN DropDupRows(Tail(rs), subset, kept)
         ELSE DropDupRows(Tail(rs), subset, Append(kept, Head(rs)))

DropDuplicates(t, subset) == Table(t.cols, DropDupRows(t.rows, subset, <<>>))

\* Lexicographic comparison of two rows on the columns by (a sequence), each
\* column compared as strings / Timestamps are; NaN sorts last (na_position).
RECURSIVE RowLess(_, _, _)
RowLess(r1, r2, by) ==
    IF by = <<>> THEN FALSE
    ELSE LET a == r1[Head(by)]
             b == r2[Head(by)]
         IN IF a = b THEN RowLess(r1, r2, Tail(by))
            ELSE IF IsNull(a) THEN FALSE
            ELSE IF IsNull(b) THEN TRUE
            ELSE StrLess(a, b)

\* Descending order of sort_values(ascending=False): NaN still sorts last.
RECURSIVE RowGreater(_, _, _)
RowGreater(r1, r2, by) ==
    IF by = <<>> THEN FALSE
    ELSE LET a == r1[Head(by)]
             b == r2[Head(by)]
         IN IF a = b THEN RowGreater(r1, r2, Tail(by))
            ELSE IF IsNull(a) THEN FALSE
            ELSE IF IsNull(b) THEN TRUE
            ELSE StrLess(b, a)

\* Insert r after every row that is not after it: a stable insertion sort.
RECURSIVE InsertSorted(_, _, _, _)
InsertSorted(rs, r, by, asc) ==
    IF rs = <<>> THEN <<r>>
    ELSE IF (IF asc THEN RowLess(r, Head(rs), by) ELSE RowGreater(r, Head(rs), by))
         THEN <<r>> \o rs
         ELSE <<Head(rs)>> \o InsertSorted(Tail(rs), r, by, asc)

RECURSIVE SortRows(_, _, _, _)
SortRows(rs, by, asc, acc) ==
    IF rs = <<>> THEN acc
    ELSE SortRows(Tail(rs), by, asc, InsertSorted(acc, Head(rs), by, asc))

\* df.sort_values(by, ascending=asc)
SortValues(t, by, asc) == Table(t.cols, SortRows(t.rows, by, asc, <<>>))

\* The name a column gets in pd.merge(..., suffixes=(sl, sr)): a column that is
\* in both frames and is not a key of the same name on both sides is suffixed.
\* A suffix is given as the function from a column name to the suffixed name.
MergedName(c, other, shared, Sfx(_)) ==
    IF c \in other /\ c \notin shared THEN Sfx(c) ELSE c

Range(s) == {s[i] : i \in 1..Len(s)}

RECURSIVE FlattenSeq(_)
FlattenSeq(ss) == IF ss = <<>> THEN <<>> ELSE Head(ss) \o FlattenSeq(Tail(ss))

\* pd.merge(left, right, how="left", left_on=lon, right_on=ron, suffixes=...)
\* lon and ron are sequences of equal length.  Rows come in the order of left,
\* the matches of one left row in the order of right; a left row without a
\* match is kept once with NaN in the columns of right.
MergeLeft(left, right, lon, ron, SfxL(_), SfxR(_)) ==
    LET shared == {lon[i] : i \in {j \in 1..Len(lon) : lon[j] = ron[j]}}
        lname(c) == MergedName(c, right.cols, shared, SfxL)
        rname(c) == MergedName(c, left.cols, shared, SfxR)
        rcols == right.cols \ shared
        cs == {lname(c) : c \in left.cols} \cup {rname(c) : c \in rcols}
        Match(l, r) == \A i \in 1..Len(lon) : l[lon[i]] = r[ron[i]]
        Joined(l, r) ==
            [k \in cs |->
                IF \E c \in left.cols : lname(c) = k
                THEN l[CHOOSE c \in left.cols : lname(c) = k]
                ELSE r[CHOOSE c \in rcols : rname(c) = k]]
        Alone(l) ==
            [k \in cs |->
                IF \E c \in left.cols : lname(c) = k
                THEN l[CHOOSE c \in left.cols : lname(c) = k]
                ELSE NaN]
        RowsFor(l) ==
            LET ms == SelectSeq(right.rows, LAMBDA r : Match(l, r))
            IN IF ms = <<>> THEN <<Alone(l)>>
               ELSE [i \in 1..Len(ms) |-> Joined(l, ms[i])]
    IN Table(cs, FlattenSeq([i \in 1..Len(left.rows) |-> RowsFor(left.rows[i])]))

(* ---------------- dates ---------------- *)

DaysIn(y, m) ==
    IF m \in {4, 6, 9, 11} THEN 30
    ELSE IF m = 2 THEN (IF y % 4 = 0 /\ (y % 100 # 0 \/ y % 400 = 0) THEN 29 ELSE 28)
    ELSE 31

IsDigits(s) == \A i \in 1..Len(s) : s[i] \in 0..9

\* Timestamp.strftime('%Y%m%d')
Strftime(ts) == Digits4(ts[1]) \o Digits2(ts[2]) \o Digits2(ts[3])

\* The inverse reading of an eight digit %Y%m%d string.
ParseYmd(s) == <<StrToInt(SubSeq(s, 1, 4)), StrToInt(SubSeq(s, 5, 6)), StrToInt(SubSeq(s, 7, 8))>>

\* An ISO date string YYYY-MM-DD ('-' is 45).
IsoDate(y, m, d) == Digits4(y) \o <<45>> \o Digits2(m) \o <<45>> \o Digits2(d)

IsIsoDate(s) ==
    /\ Len(s) = 10
    /\ s[5] = 45 /\ s[8] = 45
    /\ IsDigits(SubSeq(s, 1, 4)) /\ IsDigits(SubSeq(s, 6, 7)) /\ IsDigits(SubSeq(s, 9, 10))
    /\ StrToInt(SubSeq(s, 6, 7)) \in 1..12
    /\ StrToInt(SubSeq(s, 9, 10)) \in 1..DaysIn(StrToInt(SubSeq(s, 1, 4)), StrToInt(SubSeq(s, 6, 7)))

\* pd.to_datetime(s, errors="coerce") of one cell: a Timestamp, or NaT for NaN
\* and for text that is no date.
ToDatetimeCoerce(s) ==
    IF IsNull(s) THEN NaN
    ELSE IF IsIsoDate(s)
         THEN <<StrToInt(SubSeq(s, 1, 4)), StrToInt(SubSeq(s, 6, 7)), StrToInt(SubSeq(s, 9, 10))>>
         ELSE NaN

(* ---------------- configuration (csv.config.JSON) ---------------- *)

\* The engagement reports of Driver.run, in its order.
reports == <<"Applications", "Appointments", "Career_Fairs", "Events", "Logins">>

ReportTypes == Range(reports) \cup {"CLDC_Report", "COM1100_Report", "FDS"}

\* The column a configuration key is renamed from: its "col_name".
RawCol(c) ==
    IF c \in {"Email", "Student_ID", "Date"} THEN "raw_" \o c ELSE c

\* The first character of the file title of a report type; the configured path
\* is the glob pattern <title>*.
TitleOf(t) ==
    CASE t = "Applications" -> 65
      [] t = "Appointments" -> 66
      [] t = "Career_Fairs" -> 67
      [] t = "Events" -> 69
      [] t = "Logins" -> 76
      [] t = "CLDC_Report" -> 82
      [] t = "COM1100_Report" -> 77
      [] t = "FDS" -> 70
      [] OTHER -> 78

EnrollmentPath == <<78>>

\* The keys of a complete section of the configuration, per report type.
ReqCols == {"Student_ID", "Date", "path", "Email"}

FullKeys(t) ==
    IF t = "Enrollment"
    THEN {"path", "Student_ID", "term_code_key", "college_year", "college_program", "college_major"}
    ELSE IF t = "CLDC_Report" THEN ReqCols \cup {"desired_cols"}
    ELSE ReqCols

\* A configuration is a function from section names to the set of keys of the
\* section; the values of the keys are fixed by RawCol and TitleOf.
GoodConfig == [t \in ReportTypes \cup {"Enrollment"} |-> FullKeys(t)]

desired_cols == {"Email", "Student_ID", "Event_Type", "Date Engagement", "Date Appointment"}

(* ---------------- utils ---------------- *)

\* utils.rename_columns: for every key of the section rename its col_name to the
\* key; a key without a col_name (path, desired_cols) and a None frame raise
\* inside the try and are passed over.
RECURSIVE RenameAll(_, _)
RenameAll(df, keys) ==
    IF keys = {} THEN df
    ELSE LET k == CHOOSE x \in keys : TRUE
         IN RenameAll(IF k \in {"path", "desired_cols"} THEN df ELSE RenameCol(df, RawCol(k), k),
                      keys \ {k})

rename_columns(df, config_keys) ==
    IF df = None THEN None ELSE RenameAll(df, config_keys)

\* glob.glob(pattern): the paths on disk that start with the title.
Glob(names, title) == {p \in names : Len(p) >= 1 /\ p[1] = title}

\* sorted(files, reverse=True)
RECURSIVE SortedReverse(_)
SortedReverse(S) ==
    IF S = {} THEN <<>>
    ELSE LET top == CHOOSE p \in S : \A q \in S : ~StrLess(p, q)
         IN <<top>> \o SortedReverse(S \ {top})

\* A get_latest_file_path that takes the last of the reverse-sorted files.
get_first_file_path(names, title) ==
    IF Glob(names, title) # {}
    THEN SortedReverse(Glob(names, title))[Cardinality(Glob(names, title))]
    ELSE NaN

\* utils.get_latest_file_path: files[0] if files else None
get_latest_file_path(names, title) ==
    LET files == SortedReverse(Glob(names, title))
    IN IF files # <<>> THEN files[1] ELSE NaN

(* ---------------- Report ---------------- *)

\* Report._load_file: the latest file of the type as a table, None when the
\* section or its path is missing, no file matches or the file cannot be read.
LoadPath(cfg, fsys, t) ==
    IF t \notin DOMAIN cfg \/ "path" \notin cfg[t] THEN NaN
    ELSE get_latest_file_path(fsys.names, TitleOf(t))

ReadFile(fsys, path) ==
    IF IsNull(path) \/ path \notin DOMAIN fsys.data THEN None ELSE fsys.data[path]

load_file(cfg, fsys, t) == ReadFile(fsys, LoadPath(cfg, fsys, t))

\* Report._req_col_check: raises when the section lacks a required key.
req_col_check(cfg, t, req_cols) ==
    t \in DOMAIN cfg /\ \A col \in req_cols : col \in cfg[t]

\* A Report.__init__ that renames the columns before it checks the keys.
ReportOfRenameFirst(cfg, t, path, loaded) ==
    IF ~req_col_check(cfg, t, ReqCols)
    THEN [report_type |-> t, path |-> path,
          content |-> IF t \in DOMAIN cfg THEN rename_columns(loaded, cfg[t]) ELSE loaded,
          status |-> "error", where |-> "req_col_check"]
    ELSE [report_type |-> t, path |-> path,
          content |-> rename_columns(loaded, cfg[t]), status |-> "ok", where |-> "done"]

\* Report.__init__: the object as construction leaves it.  status is "ok" or
\* "error"; on an error, where names the step that raised and content is what
\* the object held at that moment.  path is the path _load_file resolved.
ReportOf(cfg, t, path, loaded) ==
    IF ~req_col_check(cfg, t, ReqCols)
    THEN [report_type |-> t, path |-> path, content |-> loaded,
          status |-> "error", where |-> "req_col_check"]
    ELSE [report_type |-> t, path |-> path,
          content |-> rename_columns(loaded, cfg[t]), status |-> "ok", where |-> "done"]

ReportInit(cfg, fsys, t) == ReportOf(cfg, t, LoadPath(cfg, fsys, t), load_file(cfg, fsys, t))

\* HSReport.col_typing: Date to Timestamps (NaT where it is no date), Year
\* and Month from it; raises on a None content or a missing Date column.
col_typing(df) ==
    LET d1 == WithCol(df, "Date", LAMBDA r : ToDatetimeCoerce(r["Date"]))
        d2 == WithCol(d1, "Year", LAMBDA r : IF IsNull(r["Date"]) THEN NaN ELSE <<r["Date"][1]>>)
    IN WithCol(d2, "Month", LAMBDA r : IF IsNull(r["Date"]) THEN NaN ELSE <<r["Date"][2]>>)

\* HSReport.col_type_add
col_type_add(df, t) == WithCol(df, "Event_Type", LAMBDA r : Str(t))

\* An HSReport.__init__ whose date typing leaves a None content alone.
HSReportOfNoneKept(base, t) ==
    IF base.status = "error" \/ base.content = None THEN base
    ELSE IF ~HasCols(base.content, {"Date"})
         THEN [base EXCEPT !.status = "error", !.where = "col_typing"]
         ELSE [base EXCEPT !.content = col_type_add(col_typing(base.content), t)]

\* HSReport.__init__: base is the object as super().__init__ leaves it.
HSReportOf(base, t) ==
    IF base.status = "error" THEN base
    ELSE IF base.content = None \/ ~HasCols(base.content, {"Date"})
         THEN [base EXCEPT !.status = "error", !.where = "col_typing"]
         ELSE [base EXCEPT !.content = col_type_add(col_typing(base.content), t)]

HSReportInit(cfg, fsys, t) == HSReportOf(ReportInit(cfg, fsys, t), t)

(* ---------------- Timeline ---------------- *)

\* The text of NaN after astype(str): "nan".
NanStr == <<110, 97, 110>>

seasonal_mapping(v) ==
    IF v = <<3, 5>> THEN <<4, 0>>
    ELSE IF v = <<5>> THEN <<1, 0>>
    ELSE IF v = <<2, 5>> THEN <<3, 0>>
    ELSE v

\* A try block of add_enrollment without drop_duplicates.
ProcessEnrollmentKeepDup(df) ==
    LET d2 == Filter(df, LAMBDA r : r["college_year"] \in
                        {Str("Freshman"), Str("Sophomore"), Str("Junior"), Str("Senior")})
        d3 == WithCol(d2, "Year", LAMBDA r : Slice(r["term_code_key"], 0, 4))
        d4 == WithCol(d3, "Term Code", LAMBDA r : LastChars(r["term_code_key"], 2))
        d5 == WithCol(d4, "Term Code", LAMBDA r : seasonal_mapping(r["Term Code"]))
    IN Filter(d5, LAMBDA r : r["Term Code"] \in {<<4, 0>>, <<1, 0>>, <<3, 0>>})

\* The body of the try block of add_enrollment: the processed enrollment.
ProcessEnrollment(df) ==
    LET d1 == DropDuplicates(df, df.cols)
        d2 == Filter(d1, LAMBDA r : r["college_year"] \in
                        {Str("Freshman"), Str("Sophomore"), Str("Junior"), Str("Senior")})
        d3 == WithCol(d2, "Year", LAMBDA r : Slice(r["term_code_key"], 0, 4))
        d4 == WithCol(d3, "Term Code", LAMBDA r : LastChars(r["term_code_key"], 2))
        d5 == WithCol(d4, "Term Code", LAMBDA r : seasonal_mapping(r["Term Code"]))
    IN Filter(d5, LAMBDA r : r["Term Code"] \in {<<4, 0>>, <<1, 0>>, <<3, 0>>})

\* Timeline.add_enrollment: [status, enrollment]; the read of a missing file
\* and a missing column raise.
add_enrollment(cfg, fsys, process) ==
    IF EnrollmentPath \notin fsys.names
    THEN [status |-> "error", enrollment |-> None]
    ELSE IF ~process THEN [status |-> "ok", enrollment |-> fsys.data[EnrollmentPath]]
    ELSE IF ~HasCols(rename_columns(fsys.data[EnrollmentPath], cfg["Enrollment"]),
                     {"college_year", "term_code_key"})
         THEN [status |-> "error", enrollment |-> None]
         ELSE [status |-> "ok",
               enrollment |-> ProcessEnrollment(
                   rename_columns(fsys.data[EnrollmentPath], cfg["Enrollment"]))]

\* Timeline.add_report: self._contents.append(report)
add_report(cs, report) == Append(cs, report)

\* A loop of create_timeline that puts every content in front of the frame.
RECURSIVE ConcatAllInFront(_, _)
ConcatAllInFront(df, cs) ==
    IF cs = <<>> THEN df ELSE ConcatAllInFront(Concat(Head(cs), df), Tail(cs))

\* The loop of create_timeline: df = pd.concat([df, content]) for every content.
RECURSIVE ConcatAll(_, _)
ConcatAll(df, cs) ==
    IF cs = <<>> THEN df ELSE ConcatAll(Concat(df, Head(cs)), Tail(cs))

TimelineCols == {"Email", "Student_ID", "Date", "Event_Type"}

\* Timeline.create_timeline: [status, timeline]
SelectTimelineCols(df) ==
    IF ~HasCols(df, TimelineCols)
    THEN [status |-> "error", timeline |-> None]
    ELSE [status |-> "ok", timeline |-> Project(df, TimelineCols)]

create_timeline(cs) == SelectTimelineCols(ConcatAll(EmptyFrame, cs))

Repeat(v, n) == [i \in 1..n |-> v]

\* A value_list whose Winter ends with March.
value_list_short_winter ==
    [i \in 1..12 |-> IF i <= 3 THEN <<<<1, 0>>, "Winter">>
                     ELSE IF i <= 8 THEN <<<<3, 0>>, "Summer">> ELSE <<<<4, 0>>, "Fall">>]

\* value_list and months_2key_dict of process_timeline.
value_list ==
    Repeat(<<<<1, 0>>, "Winter">>, 4) \o Repeat(<<<<3, 0>>, "Summer">>, 4)
        \o Repeat(<<<<4, 0>>, "Fall">>, 4)
key_list == [i \in 1..12 |-> i]
months_2key_dict == [m \in Range(key_list) |-> value_list[CHOOSE i \in 1..12 : key_list[i] = m]]

\* str of a whole number held in an integer column, and in a float column (a
\* column with a NaN is a float column): "2023" and "2023.0" ('.' is 46).
NumStr(n, isFloat) == IF isFloat THEN IntToStr(n) \o <<46, 0>> ELSE IntToStr(n)

\* astype(str) of a cell.
AsStr(v) == IF IsNull(v) THEN NanStr ELSE v

\* A merge of process_timeline on the Student_ID alone.
TimelineMergeOnStudent(enr, tl) ==
    MergeLeft(enr, RenameCol(tl, "Year", "Year_event"), <<"Student_ID">>, <<"Student_ID">>,
              LAMBDA c : c \o "_x", LAMBDA c : c \o "_y")

\* The merge of process_timeline: enrollment left, the events right.
TimelineMerge(enr, tl) ==
    MergeLeft(enr, tl, <<"Student_ID", "Year", "Term Code">>, <<"Student_ID", "Year", "Key">>,
              LAMBDA c : c \o "_x", LAMBDA c : c \o "_y")

\* process_timeline up to the merge: Month, Year (as text) and Key of every
\* event, and the events without a Student_ID dropped.  A Date column with a NaT
\* has float years, whose text is "2023.0".
BeforeMerge(tl) ==
    LET hasNaT == \E i \in 1..Len(tl.rows) : IsNull(tl.rows[i]["Date"])
        t1 == WithCol(tl, "Month", LAMBDA r : IF IsNull(r["Date"]) THEN NaN ELSE <<r["Date"][2]>>)
        t2 == WithCol(t1, "Year", LAMBDA r :
                  IF IsNull(r["Date"]) THEN NanStr ELSE NumStr(r["Date"][1], hasNaT))
        t3 == WithCol(t2, "Key", LAMBDA r :
                  IF IsNull(r["Month"]) \/ r["Month"][1] \notin DOMAIN months_2key_dict
                  THEN NaN ELSE months_2key_dict[r["Month"][1]][1])
    IN Filter(t3, LAMBDA r : ~IsNull(r["Student_ID"]))

\* astype(str) of every column.
AllAsStr(t) ==
    Table(t.cols, [i \in 1..Len(t.rows) |-> [c \in t.cols |-> AsStr(t.rows[i][c])]])

\* process_timeline after the merge: the rows with an event, sorted, the dates
\* as %Y%m%d, every column as text.
AfterMerge(merged) ==
    LET monthIsFloat == \E i \in 1..Len(merged.rows) : IsNull(merged.rows[i]["Month"])
        t5 == Filter(merged, LAMBDA r : ~IsNull(r["Event_Type"]))
        t6 == SortValues(t5, <<"Student_ID", "Date">>, TRUE)
        t7 == WithCol(t6, "Date", LAMBDA r : IF IsNull(r["Date"]) THEN NaN ELSE Strftime(r["Date"]))
    IN AllAsStr(WithCol(t7, "Month", LAMBDA r :
                   IF IsNull(r["Month"]) THEN NaN ELSE NumStr(r["Month"][1], monthIsFloat)))

\* Timeline.process_timeline: [status, timeline]
process_timeline(tl, enr) ==
    IF tl = None \/ enr = None \/ ~HasCols(tl, TimelineCols)
       \/ ~HasCols(enr, {"Student_ID", "Year", "Term Code"})
    THEN [status |-> "error", timeline |-> tl]
    ELSE [status |-> "ok", timeline |-> AfterMerge(TimelineMerge(enr, BeforeMerge(tl)))]

(* ---------------- CLDCReport ---------------- *)

\* %b: the month abbreviations Jan .. Dec as ASCII codes.
MonthAbbr ==
    << <<74, 97, 110>>, <<70, 101, 98>>, <<77, 97, 114>>, <<65, 112, 114>>,
       <<77, 97, 121>>, <<74, 117, 110>>, <<74, 117, 108>>, <<65, 117, 103>>,
       <<83, 101, 112>>, <<79, 99, 116>>, <<78, 111, 118>>, <<68, 101, 99>> >>

\* The text '%b %d %Y' reads as a date (' ' is 32).
IsBdY(s) ==
    /\ Len(s) = 11
    /\ \E m \in 1..12 : SubSeq(s, 1, 3) = MonthAbbr[m]
    /\ s[4] = 32 /\ s[7] = 32
    /\ IsDigits(SubSeq(s, 5, 6)) /\ IsDigits(SubSeq(s, 8, 11))
    /\ StrToInt(SubSeq(s, 5, 6)) \in
           1..DaysIn(StrToInt(SubSeq(s, 8, 11)), CHOOSE m \in 1..12 : SubSeq(s, 1, 3) = MonthAbbr[m])

\* pd.to_datetime(s, format='%b %d %Y') of one valid cell.
ParseBdY(s) ==
    <<StrToInt(SubSeq(s, 8, 11)), CHOOSE m \in 1..12 : SubSeq(s, 1, 3) = MonthAbbr[m],
      StrToInt(SubSeq(s, 5, 6))>>

EventTypes == Range(reports)

\* pd.pivot_table(df[index + [Event_Type]], index=index, columns="Event_Type",
\* aggfunc=len, fill_value=0).reset_index(): one row per combination of the
\* index columns present, in ascending order, one column per event type
\* present, the count of rows in each cell.
PivotTable(df, index, names, keys) ==
    Table(Range(index) \cup names,
          [j \in 1..Len(keys.rows) |->
              [c \in Range(index) \cup names |->
                  IF c \in names
                  THEN <<Cardinality({i \in 1..Len(df.rows) :
                                        /\ SameOn(df.rows[i], keys.rows[j], Range(index))
                                        /\ df.rows[i]["Event_Type"] = Str(c)})>>
                  ELSE keys.rows[j][c]]])

PivotCount(df, index) ==
    PivotTable(df, index, {df.rows[i]["Event_Type"][1] : i \in 1..Len(df.rows)},
               SortValues(DropDuplicates(Project(df, Range(index)), Range(index)), index, TRUE))

\* list(a set of cells): the order of iteration of a Python set of strings is not
\* fixed by the program (it follows the hash seed of the process): ascending
\* under seed 0, descending under any other seed.
RECURSIVE SetToSeq(_, _)
SetToSeq(S, seed) ==
    IF S = {} THEN <<>>
    ELSE LET low == CHOOSE p \in S : \A q \in S : p = q \/ IsNull(q) \/ (~IsNull(p) /\ StrLess(p, q))
         IN IF seed = 0 THEN <<low>> \o SetToSeq(S \ {low}, seed)
            ELSE SetToSeq(S \ {low}, seed) \o <<low>>

\* df.melt(id_vars, value_vars, var_name="Event_Type", value_name="Count"):
\* for every value column in turn, one row per row of df.
Melt(df, id_vars, value_vars) ==
    LET cs == id_vars \cup {"Event_Type", "Count"}
        Block(v) == [i \in 1..Len(df.rows) |->
                        [c \in cs |-> IF c = "Event_Type" THEN Str(v)
                                      ELSE IF c = "Count" THEN df.rows[i][v]
                                      ELSE df.rows[i][c]]]
    IN Table(cs, FlattenSeq([k \in 1..Len(value_vars) |-> Block(value_vars[k])]))

\* The first try block of CLDCReport.generate_reports: the completed
\* appointments, one per Email, with the date as %Y%m%d.
CLDCCompleted(content) == Filter(content, LAMBDA r : r["Completed"] = Str("true"))

CLDCRetained(content) ==
    DropDuplicates(SortValues(CLDCCompleted(content), <<"Email", "Date">>, FALSE), {"Email"})

CLDCProcess(content) ==
    LET d1 == WithCol(CLDCRetained(content), "Date", LAMBDA r : Slice(r["Date"], 4, 15))
    IN WithCol(d1, "Date", LAMBDA r : IF IsNull(r["Date"]) THEN NaN ELSE Strftime(ParseBdY(r["Date"])))

\* Date_appt <= Date_eng.
DateNotAfter(a, b) == ~IsNull(a) /\ ~IsNull(b) /\ ~StrLess(b, a)

\* Date_appt < Date_eng on two text cells; a comparison with NaN is False.
DateBefore(a, b) == ~IsNull(a) /\ ~IsNull(b) /\ StrLess(a, b)

\* df_tl = df_tl[[col for col in des_cols if col in df_tl.columns]]
SelectDesired(df) == Project(df, df.cols \cap desired_cols)

\* The merge with the engagements and the time-ordering filter.
CLDCTimeline(cldc_df, timeline) ==
    LET tmp_engagement == Project(timeline, TimelineCols)
        merged == MergeLeft(cldc_df, tmp_engagement, <<"Email">>, <<"Email">>,
                            LAMBDA c : c \o "_appt", LAMBDA c : c \o "_eng")
        after == Filter(merged, LAMBDA r : DateBefore(r["Date_appt"], r["Date_eng"]))
    IN SelectDesired(RenameCol(RenameCol(after, "Date_eng", "Date Engagement"),
                               "Date_appt", "Date Appointment"))

\* One row per Email of missing_stu: 0 in every other column (tmp.fillna(0)).
MissingRows(cols, missing_stu) ==
    Table(cols, [i \in 1..Len(missing_stu) |->
                    [c \in cols |-> IF c = "Email" THEN missing_stu[i] ELSE <<0>>]])

\* The rows for the Emails that are in no row of the pivot.
CLDCMissing(df_agg, all_codes, seed) ==
    MissingRows(df_agg.cols,
                SetToSeq(all_codes \ {df_agg.rows[i]["Email"] : i \in 1..Len(df_agg.rows)}, seed))

\* What generate_reports leaves when it raises in step w holding df_agg a.
CLDCFail(w, a) ==
    [status |-> "error", where |-> w, agg |-> a, melt |-> None, cldc_df |-> None, df_tl |-> None]

\* A retained appointment whose date text is no '%b %d %Y' date makes
\* pd.to_datetime raise.
BadDates(retained) ==
    \E i \in 1..Len(retained.rows) :
        /\ ~IsNull(retained.rows[i]["Date"])
        /\ ~IsBdY(Slice(retained.rows[i]["Date"], 4, 15))

\* The last try block: the melt of df_agg over the five event types.
CLDCMelt(cldc_df, df_tl, df_agg) ==
    IF ~HasCols(df_agg, {"Student_ID", "Email"} \cup EventTypes)
    THEN [status |-> "error", where |-> "melt", agg |-> df_agg, melt |-> None,
          cldc_df |-> cldc_df, df_tl |-> df_tl]
    ELSE [status |-> "ok", where |-> "done", agg |-> df_agg,
          melt |-> Melt(df_agg, {"Student_ID", "Email"}, reports),
          cldc_df |-> cldc_df, df_tl |-> df_tl]

\* df_agg: the pivot and the rows of the Emails missing from it.
CLDCAgg(pivot, all_codes, seed) == Concat(pivot, CLDCMissing(pivot, all_codes, seed))

\* The aggregate try block on the deduplicated df_tl.
CLDCAggregate(cldc_df, all_codes, df_tl, seed) ==
    IF ~HasCols(df_tl, {"Email"})
    THEN CLDCFail("aggregate", None)
    ELSE CLDCMelt(cldc_df, df_tl,
                  CLDCAgg(PivotCount(df_tl, <<"Email", "Student_ID">>), all_codes, seed))

\* The selection of des_cols and the drop of duplicate engagements.
CLDCDedup(cldc_df, all_codes, df0, seed) ==
    IF ~HasCols(df0, {"Student_ID", "Event_Type", "Date Engagement"})
    THEN CLDCFail("merge", None)
    ELSE CLDCAggregate(cldc_df, all_codes,
                       DropDuplicates(df0, {"Student_ID", "Event_Type", "Date Engagement"}), seed)

\* generate_reports from the merge on, cldc_df and all_codes being computed.
CLDCFromMerge(cldc_df, all_codes, timeline, seed) ==
    CLDCDedup(cldc_df, all_codes, CLDCTimeline(cldc_df, timeline), seed)

\* CLDCReport.generate_reports(timeline) on the report's content:
\* [status, where, agg, melt] with the locals cldc_df and df_tl.  agg is the
\* df_agg the function holds when it returns or raises.
CLDCGenerate(content, timeline, seed) ==
    IF content = None \/ ~HasCols(content, {"Completed", "Email", "Date"})
    THEN CLDCFail("process", None)
    ELSE IF BadDates(CLDCRetained(content))
    THEN CLDCFail("process", None)
    ELSE IF timeline = None \/ ~HasCols(timeline, TimelineCols)
    THEN CLDCFail("columns", None)
    ELSE CLDCFromMerge(CLDCProcess(content),
                       Range([i \in 1..Len(CLDCCompleted(content).rows) |->
                                 CLDCCompleted(content).rows[i]["Email"]]),
                       timeline, seed)

(* ---------------- COM1100Report ---------------- *)

\* The last year of range(2022, datetime.now().year + 1): the year of the run.
NowYear == 2023

GroupCols == {"Student_ID", "college_program", "college_major", "term_code_key"}

\* value_list / months_2key_dict of COM1100Report.generate_reports: the integers
\* 10, 30 and 40 by month.
com_value_list == Repeat(10, 4) \o Repeat(30, 4) \o Repeat(40, 4)
com_months_2key_dict == [m \in Range(key_list) |-> com_value_list[CHOOSE i \in 1..12 : key_list[i] = m]]

\* comm_df["Date"].str[0:4] + comm_df["Date"].str[4:6].astype(int).map(...).astype(str)
com_term_code_key(date) ==
    Slice(date, 0, 4) \o IntToStr(com_months_2key_dict[StrToInt(Slice(date, 4, 6))])

\* term_codes: str(year) + str(code) for 2022 .. now, code 40 then 10, without 202210.
term_codes ==
    {IntToStr(y) \o IntToStr(c) : y \in 2022..NowYear, c \in {40, 10}} \ {<<2, 0, 2, 2, 1, 0>>}

\* What utils.generate_com1100_report and COM1100Report.generate_reports leave
\* when they raise.
ComFail == [status |-> "error", agg |-> None, melt |-> None, comm_df |-> None]

\* The filter of generate_com1100_report: engagements on or after the presentation.
ComFilter(merged) ==
    IF HasCols(merged, {"Date_prez", "Date_eng"})
    THEN Filter(merged, LAMBDA r : ~IsNull(r["Date_prez"]) /\ ~IsNull(r["Date_eng"])
                                   /\ ~StrLess(r["Date_eng"], r["Date_prez"]))
    ELSE merged

\* The Tag column on the aggregate and on the melt.
ComTagged(com1100_agg, tag) ==
    IF ~HasCols(com1100_agg, EventTypes)
    THEN [status |-> "error", agg |-> None, melt |-> None]
    ELSE [status |-> "ok",
          agg |-> WithCol(com1100_agg, "Tag", LAMBDA r : Str(tag)),
          melt |-> WithCol(Melt(com1100_agg, GroupCols, reports), "Tag", LAMBDA r : Str(tag))]

\* The selection of the group columns and the pivot.
ComPivot(com1100_timelines, tag) ==
    IF ~HasCols(com1100_timelines, GroupCols \cup {"Event_Type"})
    THEN [status |-> "error", agg |-> None, melt |-> None]
    ELSE ComTagged(
             PivotCount(Filter(Project(com1100_timelines, GroupCols \cup {"Event_Type"}),
                               LAMBDA r : \A c \in GroupCols \cup {"Event_Type"} : ~IsNull(r[c])),
                        <<"Student_ID", "college_program", "college_major", "term_code_key">>),
             tag)

\* utils.generate_com1100_report: [status, agg, melt]
generate_com1100_report(com1100_student_group, timeline, tag) ==
    ComPivot(ComFilter(MergeLeft(com1100_student_group,
                                 Project(timeline, {"Student_ID", "Event_Type", "term_code_key", "Date"}),
                                 <<"Student_ID">>, <<"Student_ID">>,
                                 LAMBDA c : c \o "_prez", LAMBDA c : c \o "_eng")),
             tag)

\* A no group of all the freshmen of the terms of term_codes, one row per student.
NoCom1100AllFreshmen(comm_df, cfg, enrollment) ==
    LET fresh0 == Filter(enrollment, LAMBDA r : r["term_code_key"] \in term_codes
                                                /\ r["college_year"] = Str("Freshman"))
        freshman == Filter(rename_columns(fresh0, cfg["Enrollment"]),
                           LAMBDA r : ~IsNull(r["Student_ID"]))
    IN DropDuplicates(SortValues(freshman, <<"term_code_key">>, TRUE), {"Student_ID"})

\* The freshmen of the terms of term_codes who are in no row of comm_df, one
\* row per student.
NoCom1100(comm_df, cfg, enrollment) ==
    LET fresh0 == Filter(enrollment, LAMBDA r : r["term_code_key"] \in term_codes
                                                /\ r["college_year"] = Str("Freshman"))
        freshman == Filter(rename_columns(fresh0, cfg["Enrollment"]),
                           LAMBDA r : ~IsNull(r["Student_ID"]))
        no0 == Filter(freshman, LAMBDA r :
                   \A i \in 1..Len(comm_df.rows) : r["Student_ID"] # comm_df.rows[i]["Student_ID"])
    IN DropDuplicates(SortValues(no0, <<"term_code_key">>, TRUE), {"Student_ID"})

\* pd.concat of the reports of the two groups.
ComConcat(comm_df, single, no) ==
    IF single.status = "error" \/ no.status = "error"
    THEN [ComFail EXCEPT !.comm_df = comm_df]
    ELSE [status |-> "ok", agg |-> Concat(single.agg, no.agg),
          melt |-> Concat(single.melt, no.melt), comm_df |-> comm_df]

\* The two calls of generate_com1100_report.
ComReports(comm_df, com1100_no_dup, no_com1100, timeline) ==
    IF ~HasCols(com1100_no_dup, GroupCols \cup {"Date"}) \/ ~HasCols(no_com1100, GroupCols)
    THEN [ComFail EXCEPT !.comm_df = comm_df]
    ELSE ComConcat(comm_df,
                   generate_com1100_report(Project(com1100_no_dup, GroupCols \cup {"Date"}),
                                           timeline, "single"),
                   generate_com1100_report(Project(no_com1100, GroupCols), timeline, "no"))

\* The two student groups of comm_df: a presentation each, and none.
ComGroups(comm_df, cfg, enrollment, timeline) ==
    ComReports(comm_df, DropDuplicates(comm_df, {"Student_ID"}),
               NoCom1100(comm_df, cfg, enrollment), timeline)

\* generate_reports once comm_df has its Timestamps.
ComDated(d2, cfg, enrollment, timeline) ==
    IF \E i \in 1..Len(d2.rows) : IsNull(d2.rows[i]["Date"]) THEN ComFail
    ELSE IF enrollment = None \/ timeline = None
            \/ ~HasCols(enrollment, {"term_code_key", "college_year", "Student_ID"})
            \/ ~HasCols(timeline, {"Student_ID", "Event_Type", "term_code_key", "Date"})
    THEN ComFail
    ELSE ComGroups(SortValues(
                       WithCol(WithCol(d2, "Date", LAMBDA r : Strftime(r["Date"])),
                               "term_code_key", LAMBDA r : com_term_code_key(r["Date"])),
                       <<"Email", "term_code_key">>, TRUE),
                   cfg, enrollment, timeline)

\* generate_reports on the renamed content.
ComTyped(renamed, cfg, enrollment, timeline) ==
    IF renamed = None \/ ~HasCols(renamed, {"Email", "Date", "Student_ID"}) THEN ComFail
    ELSE ComDated(WithCol(Filter(renamed, LAMBDA r : ~IsNull(r["Email"])),
                          "Date", LAMBDA r : ToDatetimeCoerce(r["Date"])),
                  cfg, enrollment, timeline)

\* COM1100Report.generate_reports(enrollment, timeline) on the report's content:
\* [status, agg, melt] with the local comm_df as it is when the function
\* returns or raises (None before it has its term_code_key).
COM1100Generate(content, cfg, enrollment, timeline) ==
    ComTyped(rename_columns(content, cfg["COM1100_Report"]), cfg, enrollment, timeline)

(* ---------------- FDSReport ---------------- *)

CollegeYears == {"Freshman", "Sophomore", "Junior", "Senior"}

\* ' '.join(col) of a pivot column (Event_Type, college_year).
CountCol(e, y) == e \o " " \o y
CountCols == {CountCol(e, y) : e \in EventTypes, y \in CollegeYears}
EventOf(col) == CHOOSE e \in EventTypes : \E y \in CollegeYears : col = CountCol(e, y)
YearOf(col) == CHOOSE y \in CollegeYears : \E e \in EventTypes : col = CountCol(e, y)

\* The columns of the FDS sheet that success_df keeps beside Student_ID.
FDSIdCols ==
    {"Student_ID", "outcome", "internships", "gender", "honors_college", "gpa",
     "athlete_status", "urm_status", "FDS_year", "college_program", "college_major"}

TotalCols ==
    {"Total Events", "Total Appointments", "Total Career Fairs", "Total Applications", "Total Logins"}

\* The event type whose count columns a Total column sums: the columns that
\* start with Events, Appointments, Career, Applications, Logins.
TotalOf(total) ==
    CASE total = "Total Events" -> "Events"
      [] total = "Total Appointments" -> "Appointments"
      [] total = "Total Career Fairs" -> "Career_Fairs"
      [] total = "Total Applications" -> "Applications"
      [] total = "Total Logins" -> "Logins"

\* id_vars of the melt.
FDSMeltIds == (FDSIdCols \cup TotalCols \cup {"outcome_desc"})

success_dict(outcome) ==
    IF outcome \in {Str("Employed (Unknown Hours Worked)"), Str("Employed Full-Time"),
                    Str("Employed Part-Time"), Str("Pursuing Continuing Education"),
                    Str("Serving in the Military"), Str("Volunteer or Service Program")}
    THEN Str("1")
    ELSE IF outcome \in {Str("Not Seeking Employment"), Str("Seeking Employment")}
    THEN Str("0")
    ELSE NaN

\* pd.pivot_table(df, index="Student_ID", columns=["Event_Type", "college_year"],
\* aggfunc=len) with the columns joined by ' ' and the index reset: NaN where a
\* student has no row of the column.
CountCell(n) == IF n = 0 THEN NaN ELSE <<n>>

PivotEventYearTable(df, names, keys) ==
    Table({"Student_ID"} \cup names,
          [j \in 1..Len(keys.rows) |->
              [c \in {"Student_ID"} \cup names |->
                  IF c \in names
                  THEN CountCell(Cardinality({i \in 1..Len(df.rows) :
                           /\ df.rows[i]["Student_ID"] = keys.rows[j]["Student_ID"]
                           /\ CountCol(df.rows[i]["Event_Type"][1], df.rows[i]["college_year"][1]) = c}))
                  ELSE keys.rows[j][c]]])

PivotEventYear(df) ==
    PivotEventYearTable(df,
        {CountCol(df.rows[i]["Event_Type"][1], df.rows[i]["college_year"][1]) : i \in 1..Len(df.rows)},
        SortValues(DropDuplicates(Project(df, {"Student_ID"}), {"Student_ID"}), <<"Student_ID">>, TRUE))

RECURSIVE SumCells(_, _)
SumCells(r, cs) ==
    IF cs = {} THEN 0
    ELSE LET c == CHOOSE x \in cs : TRUE IN r[c][1] + SumCells(r, cs \ {c})

\* Date_tl <= Date_fds.
TlNotAfterFds(date_tl, date_fds) ==
    ~IsNull(date_tl) /\ ~IsNull(date_fds) /\ ~StrLess(date_fds, ParseYmd(date_tl))

\* Date_tl < Date_fds: the text of the timeline read as a date against the
\* Timestamp of the response; a comparison with NaN / NaT is False.
TlBeforeFds(date_tl, date_fds) ==
    ~IsNull(date_tl) /\ ~IsNull(date_fds) /\ StrLess(ParseYmd(date_tl), date_fds)

\* success_df.melt(id_vars, value_vars) with Year and Event_Type split from the
\* name of the count column at its last space.
FDSMelt(success_df, value_vars) ==
    LET cs == FDSMeltIds \cup {"Event_Type", "Count", "Year"}
        Block(v) == [i \in 1..Len(success_df.rows) |->
                        [c \in cs |-> IF c = "Event_Type" THEN Str(EventOf(v))
                                      ELSE IF c = "Year" THEN Str(YearOf(v))
                                      ELSE IF c = "Count" THEN success_df.rows[i][v]
                                      ELSE success_df.rows[i][c]]]
    IN Table(cs, FlattenSeq([k \in 1..Len(value_vars) |-> Block(value_vars[k])]))

\* Column names as a list in the order list(set(...)) gives under the seed.
RECURSIVE NamesToSeq(_, _)
NamesToSeq(S, seed) ==
    IF S = {} THEN <<>>
    ELSE LET e == CHOOSE x \in EventTypes : \E c \in S : EventOf(c) = x
             c == CHOOSE x \in S : EventOf(x) = e
         IN IF seed = 0 THEN <<c>> \o NamesToSeq(S \ {c}, seed)
            ELSE NamesToSeq(S \ {c}, seed) \o <<c>>

FDSFail == [status |-> "error", agg |-> None, melt |-> None]

\* The engagements of the students of the sheet before their response: the
\* merge, the time-ordering filter and the selection that the pivot counts.
FDSCounted(fds, timeline) ==
    LET merged == MergeLeft(Project(fds, {"Student_ID", "Date"}), timeline,
                            <<"Student_ID">>, <<"Student_ID">>,
                            LAMBDA c : c \o "_fds", LAMBDA c : c \o "_tl")
        timeline_targs == Filter(merged, LAMBDA r : TlBeforeFds(r["Date_tl"], r["Date_fds"]))
    IN Filter(Project(timeline_targs, {"Student_ID", "Event_Type", "college_year"}),
              LAMBDA r : ~IsNull(r["Student_ID"]))

\* The undergraduates of the sheet, one row per distinct response.
FDSBase(fds) ==
    DropDuplicates(Project(Filter(fds, LAMBDA r : r["college_level"] = Str("Undergraduate")),
                           FDSIdCols), FDSIdCols)

\* success_df.fillna(0) on the count columns, fillna("0") elsewhere.
FillNa(df) ==
    Table(df.cols, [i \in 1..Len(df.rows) |->
                      [c \in df.cols |->
                          IF ~IsNull(df.rows[i][c]) THEN df.rows[i][c]
                          ELSE IF c \in CountCols THEN <<0>> ELSE Str("0")]])

\* Total columns that each sum every count column of the row.
FDSTotalsAllTypes(df) ==
    Table(df.cols \cup TotalCols,
          [i \in 1..Len(df.rows) |->
              [c \in df.cols \cup TotalCols |->
                  IF c \in TotalCols
                  THEN <<SumCells(df.rows[i], df.cols \cap CountCols)>>
                  ELSE df.rows[i][c]]])

\* The five Total columns: the sum of the count columns of the event type.
FDSTotals(df) ==
    Table(df.cols \cup TotalCols,
          [i \in 1..Len(df.rows) |->
              [c \in df.cols \cup TotalCols |->
                  IF c \in TotalCols
                  THEN <<SumCells(df.rows[i],
                                  {x \in df.cols \cap CountCols : EventOf(x) = TotalOf(c)})>>
                  ELSE df.rows[i][c]]])

\* A success_df from an inner merge: only the respondents the pivot has a row of.
SuccessDfInner(fds, student_event_counts) ==
    LET s1 == Filter(MergeLeft(FDSBase(fds), student_event_counts, <<"Student_ID">>, <<"Student_ID">>,
                               LAMBDA c : c \o "_x", LAMBDA c : c \o "_y"),
                     LAMBDA r : \E j \in 1..Len(student_event_counts.rows) :
                                   student_event_counts.rows[j]["Student_ID"] = r["Student_ID"])
        s3 == FillNa(Filter(s1, LAMBDA r : ~IsNull(r["outcome"])))
        s4 == WithCol(s3, "outcome_desc", LAMBDA r : r["outcome"])
        s5 == WithCol(s4, "outcome", LAMBDA r : success_dict(r["outcome"]))
    IN DropDuplicates(FDSTotals(s5), {"Student_ID"})

\* success_df from the merge of the responses with the counts on.
SuccessDf(fds, student_event_counts) ==
    LET s1 == MergeLeft(FDSBase(fds), student_event_counts, <<"Student_ID">>, <<"Student_ID">>,
                        LAMBDA c : c \o "_x", LAMBDA c : c \o "_y")
        s3 == FillNa(Filter(s1, LAMBDA r : ~IsNull(r["outcome"])))
        s4 == WithCol(s3, "outcome_desc", LAMBDA r : r["outcome"])
        s5 == WithCol(s4, "outcome", LAMBDA r : success_dict(r["outcome"]))
    IN DropDuplicates(FDSTotals(s5), {"Student_ID"})

\* The aggregate and its melt over the count columns.
FDSOut(success_df, seed) ==
    [status |-> "ok", agg |-> success_df,
     melt |-> FDSMelt(success_df, NamesToSeq(success_df.cols \ FDSMeltIds, seed))]

\* The pivot of the counted engagements and what follows it.
FDSPivot(fds, counted, seed, emptyRaises) ==
    IF counted.rows = <<>> /\ emptyRaises THEN FDSFail
    ELSE FDSOut(SuccessDf(fds, PivotEventYear(counted)), seed)

\* generate_reports once Date and internships are typed.
FDSTyped(fds, timeline, seed, emptyRaises) ==
    FDSPivot(fds, FDSCounted(fds, timeline), seed, emptyRaises)

\* generate_reports on the renamed content.
FDSRenamed(fds0, timeline, seed, emptyRaises) ==
    IF fds0 = None
       \/ ~HasCols(fds0, FDSIdCols \cup {"Date", "internship_emp", "college_level"})
    THEN FDSFail
    ELSE IF \E i \in 1..Len(fds0.rows) :
               ~IsNull(fds0.rows[i]["Date"]) /\ ~IsIsoDate(fds0.rows[i]["Date"])
    THEN FDSFail
    ELSE IF timeline = None \/ ~HasCols(timeline, {"Student_ID", "Date", "Event_Type", "college_year"})
    THEN FDSFail
    ELSE FDSTyped(WithCol(WithCol(fds0, "Date", LAMBDA r : ToDatetimeCoerce(r["Date"])),
                          "internships", LAMBDA r :
                              IF r["internships"] = Str("0") /\ ~IsNull(r["internship_emp"])
                              THEN Str("1") ELSE r["internships"]),
                  timeline, seed, emptyRaises)

\* FDSReport.generate_reports(timeline) on the report's content: [status, agg,
\* melt].  What pivot_table returns for a frame without rows is left open:
\* emptyRaises says whether the run then ends in an error.
FDSGenerate(content, cfg, timeline, seed, emptyRaises) ==
    FDSRenamed(rename_columns(content, cfg["Enrollment"]), timeline, seed, emptyRaises)

(* ---------------- the command line ---------------- *)

\* The value of args.add_report_output.  Without the option it is the default,
\* the text "CLDC, COM1100, FDS"; with it (nargs='*') the list of the words that
\* follow the option.  A text is the sequence of its pieces, a piece being a
\* report name or the separator between two names.
DefaultArg == [kind |-> "str", text |-> <<"CLDC", ", ", "COM1100", ", ", "FDS">>]
ListArg(words) == [kind |-> "list", words |-> words]

\* name in reports_desired: a substring of the text, or an element of the list.
InDesired(name, rd) ==
    IF rd.kind = "str" THEN \E i \in 1..Len(rd.text) : rd.text[i] = name
    ELSE \E i \in 1..Len(rd.words) : rd.words[i] = <<name>>

(* ---------------- Driver.run as a state machine ---------------- *)

VARIABLES
    config,          \* the configuration every Config object loads
    fs,              \* the files on disk: [names, data, seed]
    reports_desired, \* args.add_report_output
    pc,              \* the statement of Driver.run that runs next
    obj,             \* the Report object constructed last
    contents,        \* Timeline._contents
    enrollment,      \* Timeline._enrollment
    timeline,        \* Timeline._timeline
    cldc,            \* what CLDCReport.generate_reports left
    com1100,         \* what COM1100Report.generate_reports left
    fds,             \* what FDSReport.generate_reports left
    outputs,         \* the list outputs of Driver.run
    paths,           \* the list paths of Driver.run
    written          \* the files written under outputs/, in order

vars == <<config, fs, reports_desired, pc, obj, contents, enrollment, timeline,
          cldc, com1100, fds, outputs, paths, written>>

NoObj == [report_type |-> "", path |-> NaN, content |-> None, status |-> "none", where |-> ""]
NoResult == [status |-> "none"]

\* The state Driver.run starts in: timeline = Timeline().
InitRun(cfg, fsys, rd) ==
    /\ config = cfg
    /\ fs = fsys
    /\ reports_desired = rd
    /\ pc = "HSReport"
    /\ obj = NoObj
    /\ contents = <<>>
    /\ enrollment = None
    /\ timeline = None
    /\ cldc = NoResult
    /\ com1100 = NoResult
    /\ fds = NoResult
    /\ outputs = <<>>
    /\ paths = <<>>
    /\ written = <<>>

\* One turn of the loop over reports: obj = HSReport(report); add_report(obj.content).
LoadReport ==
    /\ pc = "HSReport"
    /\ \E o \in {HSReportInit(config, fs, reports[Len(contents) + 1])} :
          /\ obj' = o
          /\ IF o.status = "error"
             THEN /\ pc' = "error"
                  /\ contents' = contents
             ELSE /\ contents' = add_report(contents, o.content)
                  /\ pc' = IF Len(contents) + 1 = Len(reports) THEN "add_enrollment" ELSE "HSReport"
    /\ UNCHANGED <<config, fs, reports_desired, enrollment, timeline, cldc, com1100, fds,
                   outputs, paths, written>>

\* timeline.add_enrollment()
AddEnrollment ==
    /\ pc = "add_enrollment"
    /\ \E r \in {add_enrollment(config, fs, TRUE)} :
          /\ enrollment' = IF r.status = "ok" THEN r.enrollment ELSE enrollment
          /\ pc' = IF r.status = "ok" THEN "create_timeline" ELSE "error"
    /\ UNCHANGED <<config, fs, reports_desired, obj, contents, timeline, cldc, com1100, fds,
                   outputs, paths, written>>

\* timeline.create_timeline()
CreateTimeline ==
    /\ pc = "create_timeline"
    /\ \E r \in {create_timeline(contents)} :
          /\ timeline' = IF r.status = "ok" THEN r.timeline ELSE timeline
          /\ pc' = IF r.status = "ok" THEN "process_timeline" ELSE "error"
    /\ UNCHANGED <<config, fs, reports_desired, obj, contents, enrollment, cldc, com1100, fds,
                   outputs, paths, written>>

\* A process_timeline step that is followed at once by the write of timeline.csv.
ProcessTimelineThenWrite ==
    /\ pc = "process_timeline"
    /\ \E r \in {process_timeline(timeline, enrollment)} :
          /\ timeline' = r.timeline
          /\ IF r.status = "ok"
             THEN /\ pc' = "CLDC"
                  /\ outputs' = <<r.timeline>>
                  /\ paths' = <<"outputs/timeline.csv">>
                  /\ written' = <<[path |-> "outputs/timeline.csv", table |-> r.timeline]>>
             ELSE /\ pc' = "error"
                  /\ UNCHANGED <<outputs, paths, written>>
    /\ UNCHANGED <<config, fs, reports_desired, obj, contents, enrollment, cldc, com1100, fds>>

\* timeline.process_timeline(); outputs = [timeline.timeline]; paths = [...]
ProcessTimeline ==
    /\ pc = "process_timeline"
    /\ \E r \in {process_timeline(timeline, enrollment)} :
          /\ timeline' = r.timeline
          /\ IF r.status = "ok"
             THEN /\ pc' = "CLDC"
                  /\ outputs' = <<r.timeline>>
                  /\ paths' = <<"outputs/timeline.csv">>
             ELSE /\ pc' = "error"
                  /\ UNCHANGED <<outputs, paths>>
    /\ UNCHANGED <<config, fs, reports_desired, obj, contents, enrollment, cldc, com1100, fds,
                   written>>

\* A CLDC step whose generator keeps its selection of the timeline columns in
\* the timeline it was given.
ReportCLDCInPlace ==
    /\ pc = "CLDC"
    /\ IF InDesired("CLDC", reports_desired)
       THEN \E o \in {ReportInit(config, fs, "CLDC_Report")} :
            \E r \in {CLDCGenerate(o.content, timeline, fs.seed)} :
               /\ obj' = o
               /\ timeline' = Project(timeline, TimelineCols)
               /\ IF o.status = "error"
                  THEN /\ pc' = "error"
                       /\ UNCHANGED <<cldc, outputs, paths>>
                  ELSE /\ cldc' = r
                       /\ IF r.status = "error"
                          THEN /\ pc' = "error"
                               /\ UNCHANGED <<outputs, paths>>
                          ELSE /\ pc' = "COM1100"
                               /\ outputs' = outputs \o <<r.agg, r.melt>>
                               /\ paths' = paths \o <<"outputs/cldc_agg.csv", "outputs/cldc_melt.csv">>
       ELSE /\ pc' = "COM1100"
            /\ UNCHANGED <<obj, timeline, cldc, outputs, paths>>
    /\ UNCHANGED <<config, fs, reports_desired, contents, enrollment, com1100, fds, written>>

\* if "CLDC" in reports_desired: CLDCReport().generate_reports(timeline=...)
ReportCLDC ==
    /\ pc = "CLDC"
    /\ IF InDesired("CLDC", reports_desired)
       THEN \E o \in {ReportInit(config, fs, "CLDC_Report")} :
            \E r \in {CLDCGenerate(o.content, timeline, fs.seed)} :
               /\ obj' = o
               /\ IF o.status = "error"
                  THEN /\ pc' = "error"
                       /\ UNCHANGED <<cldc, outputs, paths>>
                  ELSE /\ cldc' = r
                       /\ IF r.status = "error"
                          THEN /\ pc' = "error"
                               /\ UNCHANGED <<outputs, paths>>
                          ELSE /\ pc' = "COM1100"
                               /\ outputs' = outputs \o <<r.agg, r.melt>>
                               /\ paths' = paths \o <<"outputs/cldc_agg.csv", "outputs/cldc_melt.csv">>
       ELSE /\ pc' = "COM1100"
            /\ UNCHANGED <<obj, cldc, outputs, paths>>
    /\ UNCHANGED <<config, fs, reports_desired, contents, enrollment, timeline, com1100, fds,
                   written>>

\* if "COM1100" in reports_desired: COM1100Report().generate_reports(...)
ReportCOM1100 ==
    /\ pc = "COM1100"
    /\ IF InDesired("COM1100", reports_desired)
       THEN \E o \in {ReportInit(config, fs, "COM1100_Report")} :
            \E r \in {COM1100Generate(o.content, config, enrollment, timeline)} :
               /\ obj' = o
               /\ IF o.status = "error"
                  THEN /\ pc' = "error"
                       /\ UNCHANGED <<com1100, outputs, paths>>
                  ELSE /\ com1100' = r
                       /\ IF r.status = "error"
                          THEN /\ pc' = "error"
                               /\ UNCHANGED <<outputs, paths>>
                          ELSE /\ pc' = "FDS"
                               /\ outputs' = outputs \o <<r.agg, r.melt>>
                               /\ paths' = paths \o <<"outputs/COM1100_agg.csv", "outputs/COM1100_melt.csv">>
       ELSE /\ pc' = "FDS"
            /\ UNCHANGED <<obj, com1100, outputs, paths>>
    /\ UNCHANGED <<config, fs, reports_desired, contents, enrollment, timeline, cldc, fds,
                   written>>

\* if "FDS" in reports_desired: FDSReport().generate_reports(timeline=...)
ReportFDS ==
    /\ pc = "FDS"
    /\ IF InDesired("FDS", reports_desired)
       THEN \E emptyRaises \in BOOLEAN :
            \E o \in {ReportInit(config, fs, "FDS")} :
            \E r \in {FDSGenerate(o.content, config, timeline, fs.seed, emptyRaises)} :
               /\ obj' = o
               /\ IF o.status = "error"
                  THEN /\ pc' = "error"
                       /\ UNCHANGED <<fds, outputs, paths>>
                  ELSE /\ fds' = r
                       /\ IF r.status = "error"
                          THEN /\ pc' = "error"
                               /\ UNCHANGED <<outputs, paths>>
                          ELSE /\ pc' = "write"
                               /\ outputs' = outputs \o <<r.agg, r.melt>>
                               /\ paths' = paths \o <<"outputs/fds_agg.csv", "outputs/fds_melt.csv">>
       ELSE /\ pc' = "write"
            /\ UNCHANGED <<obj, fds, outputs, paths>>
    /\ UNCHANGED <<config, fs, reports_desired, contents, enrollment, timeline, cldc, com1100,
                   written>>

\* One turn of the loop over zip(outputs, paths): output.to_csv(path)
WriteOutput ==
    /\ pc = "write"
    /\ LET k == Len(written) + 1
       IN /\ written' = Append(written, [path |-> paths[k], table |-> outputs[k]])
          /\ pc' = IF k = Len(paths) THEN "done" ELSE "write"
    /\ UNCHANGED <<config, fs, reports_desired, obj, contents, enrollment, timeline, cldc,
                   com1100, fds, outputs, paths>>

Next ==
    \/ LoadReport
    \/ AddEnrollment
    \/ CreateTimeline
    \/ ProcessTimeline
    \/ ReportCLDC
    \/ ReportCOM1100
    \/ ReportFDS
    \/ WriteOutput

(* ---------------- the files of a run ---------------- *)

\* All sequences over S of length at most n.
RECURSIVE SeqsUpTo(_, _)
SeqsUpTo(S, n) ==
    IF n = 0 THEN {<<>>}
    ELSE LET shorter == SeqsUpTo(S, n - 1)
         IN shorter \cup {Append(q, x) : q \in {r \in shorter : Len(r) = n - 1}, x \in S}

\* A row of a Handshake report file, of the enrollment file, of the CLDC sheet,
\* of the COM1100 sheet and of the FDS sheet, before any renaming.
HSRow(email, sid, date) ==
    [c \in {"raw_Email", "raw_Student_ID", "raw_Date"} |->
        IF c = "raw_Email" THEN email ELSE IF c = "raw_Student_ID" THEN sid ELSE date]

EnrollRow(sid, tck, year, major) ==
    [c \in {"raw_Student_ID", "term_code_key", "college_year", "college_program", "college_major"} |->
        IF c = "raw_Student_ID" THEN sid
        ELSE IF c = "term_code_key" THEN tck
        ELSE IF c = "college_year" THEN Str(year)
        ELSE IF c = "college_program" THEN Str("BS") ELSE Str(major)]

CLDCRow(email, completed, date) ==
    [c \in {"raw_Email", "Completed", "raw_Date"} |->
        IF c = "raw_Email" THEN email ELSE IF c = "Completed" THEN Str(completed) ELSE date]

COMRow(email, sid, date) ==
    [c \in {"raw_Email", "raw_Student_ID", "raw_Date", "college_program", "college_major"} |->
        IF c = "raw_Email" THEN email
        ELSE IF c = "raw_Student_ID" THEN sid
        ELSE IF c = "raw_Date" THEN date
        ELSE IF c = "college_program" THEN Str("BS") ELSE Str("CS")]

FDSSheetCols ==
    {"raw_Student_ID", "raw_Date", "raw_Email", "outcome", "internships", "internship_emp",
     "college_level", "gender", "honors_college", "gpa", "athlete_status", "urm_status",
     "FDS_year", "college_program", "college_major"}

FDSRow(sid, date, level, outcome) ==
    [c \in FDSSheetCols |->
        IF c = "raw_Student_ID" THEN sid
        ELSE IF c = "raw_Date" THEN date
        ELSE IF c = "college_level" THEN Str(level)
        ELSE IF c = "outcome" THEN outcome
        ELSE IF c = "internships" THEN Str("0")
        ELSE IF c = "internship_emp" THEN NaN
        ELSE IF c = "raw_Email" THEN NaN
        ELSE Str("x")]

\* The text of Date.toString() for a day: 'Www Mmm dd yyyy' (the CLDC sheet).
DayAbbr ==
    << <<83, 117, 110>>, <<77, 111, 110>>, <<84, 117, 101>>, <<87, 101, 100>>,
       <<84, 104, 117>>, <<70, 114, 105>>, <<83, 97, 116>> >>

DayOfWeek(y, m, d) ==
    LET t == <<0, 3, 2, 5, 0, 3, 5, 1, 4, 6, 2, 4>>
        yy == IF m < 3 THEN y - 1 ELSE y
    IN (yy + yy \div 4 - yy \div 100 + yy \div 400 + t[m] + d) % 7

JsDate(y, m, d) ==
    DayAbbr[DayOfWeek(y, m, d) + 1] \o <<32>> \o MonthAbbr[m] \o <<32>> \o Digits2(d)
        \o <<32>> \o Digits4(y)

\* The columns of the file of a report type.
FileCols(t) ==
    IF t = "CLDC_Report" THEN {"raw_Email", "Completed", "raw_Date"}
    ELSE IF t = "COM1100_Report"
    THEN {"raw_Email", "raw_Student_ID", "raw_Date", "college_program", "college_major"}
    ELSE IF t = "FDS" THEN FDSSheetCols
    ELSE {"raw_Email", "raw_Student_ID", "raw_Date"}

EnrollCols == {"raw_Student_ID", "term_code_key", "college_year", "college_program", "college_major"}

\* A disk: for every report type the files <title><suffix>, files[t] being the
\* function from the suffixes of the type to the rows of the file, plus the
\* enrollment file.
Disk(files, enr, seed) ==
    LET names == UNION {{<<TitleOf(t)>> \o suf : suf \in DOMAIN files[t]} : t \in ReportTypes}
                 \cup {EnrollmentPath}
        TypeAt(p) == CHOOSE t \in ReportTypes : p[1] = TitleOf(t)
    IN [names |-> names,
        seed |-> seed,
        data |-> [p \in names |->
            IF p = EnrollmentPath THEN Table(EnrollCols, enr)
            ELSE Table(FileCols(TypeAt(p)), files[TypeAt(p)][Tail(p)])]]

\* One file per report type: rows[t] are the rows of the file of type t.
OneFile(rows) == [t \in ReportTypes |-> [suf \in {<<1>>} |-> rows[t]]]

(* ---------------- the runs that are checked ---------------- *)

\* Bounds of the input families.
MaxRows == 2
MaxWords == 2
MaxFiles == 2

\* Two Emails and two Student_IDs.
EmailA == <<97>>
EmailB == <<98>>
Sid1 == <<1>>
Sid2 == <<2>>

\* Term codes as digit strings.
Term(y, code) == Digits4(y) \o Digits2(code)

\* What follows -ar / --add_report_output on the command line: nothing (the
\* default string) or up to MaxWords words.
Words ==
    { <<"CLDC">>, <<"COM1100">>, <<"FDS">>, <<"CLDC", ",", "FDS">>, <<"CLDC", ",">> }

Args == {DefaultArg} \cup {ListArg(w) : w \in SeqsUpTo(Words, MaxWords)}

\* An enrollment file with both students enrolled in Winter and Fall 2023.
EnrBoth ==
    << EnrollRow(Sid1, Term(2023, 10), "Freshman", "CS"),
       EnrollRow(Sid2, Term(2023, 10), "Senior", "CS"),
       EnrollRow(Sid1, Term(2023, 40), "Sophomore", "CS") >>

\* One engagement of student 1 on 2023-02-10 in every Handshake report.
AllTypesRows == [t \in ReportTypes |->
    IF t \in Range(reports) THEN << HSRow(EmailA, Sid1, IsoDate(2023, 2, 10)) >> ELSE <<>>]

FdsRowsA == << FDSRow(Sid1, IsoDate(2023, 5, 1), "Bachelors", Str("Working")) >>
CldcRowsA == << CLDCRow(EmailA, "true", JsDate(2023, 1, 5)) >>
ComRowsA == << COMRow(EmailA, Sid1, IsoDate(2023, 1, 20)) >>

WithSheets(rows, cl, com, fd) ==
    [t \in ReportTypes |->
        IF t = "CLDC_Report" THEN cl
        ELSE IF t = "COM1100_Report" THEN com
        ELSE IF t = "FDS" THEN fd ELSE rows[t]]

\* Runs of the driver over every command line: the Events report has no row,
\* one row or two, the set-iteration order is one of two.
EventsChoices ==
    { <<>>,
      << HSRow(EmailA, Sid1, IsoDate(2023, 2, 10)) >>,
      << HSRow(EmailA, Sid1, IsoDate(2023, 2, 10)), HSRow(EmailB, Sid2, IsoDate(2023, 3, 1)) >> }

Init ==
    \E rd \in Args, ev \in EventsChoices, seed \in {0, 1} :
        InitRun(GoodConfig,
                Disk(OneFile(WithSheets([AllTypesRows EXCEPT !["Events"] = ev],
                                        CldcRowsA, ComRowsA, FdsRowsA)), EnrBoth, seed),
                rd)

Spec == Init /\ [][Next]_vars

\* ---- runs over many timelines: what process_timeline keeps ----

\* The rows the Events report is drawn from: two students, a Winter, a Fall and
\* a 2022 date, a row without Student_ID and a row whose date is no date.
TLRows ==
    { HSRow(EmailA, Sid1, IsoDate(2023, 2, 10)),
      HSRow(EmailA, Sid1, IsoDate(2023, 9, 5)),
      HSRow(EmailB, Sid2, IsoDate(2023, 2, 10)),
      HSRow(EmailA, NaN, IsoDate(2023, 2, 10)),
      HSRow(EmailA, Sid1, <<120>>),
      HSRow(EmailB, Sid2, IsoDate(2022, 9, 5)) }

TLFixed == [t \in ReportTypes |->
    IF t = "Applications" THEN << HSRow(EmailA, Sid1, IsoDate(2023, 4, 30)) >>
    ELSE IF t = "Career_Fairs" THEN << HSRow(EmailB, Sid2, IsoDate(2023, 5, 1)) >>
    ELSE IF t = "Logins" THEN << HSRow(EmailA, Sid1, IsoDate(2023, 2, 10)) >>
    ELSE <<>>]

\* Enrollment files: one row, a duplicated row, two students and a '35' term,
\* a graduate and a 2022 term, a missing Student_ID and a '15' term, no row,
\* two rows of one student and term that differ in the major, and a '25' and
\* a '05' term.
Enrollments ==
    { << EnrollRow(Sid1, Term(2023, 10), "Freshman", "CS") >>,
      << EnrollRow(Sid1, Term(2023, 10), "Freshman", "CS"),
         EnrollRow(Sid1, Term(2023, 10), "Freshman", "CS") >>,
      << EnrollRow(Sid1, Term(2023, 10), "Freshman", "CS"),
         EnrollRow(Sid2, Term(2023, 10), "Senior", "CS"),
         EnrollRow(Sid1, Term(2023, 35), "Sophomore", "CS") >>,
      << EnrollRow(Sid1, Term(2023, 10), "Graduate", "CS"),
         EnrollRow(Sid2, Term(2022, 40), "Junior", "CS") >>,
      << EnrollRow(NaN, Term(2023, 10), "Freshman", "CS"),
         EnrollRow(Sid1, Term(2023, 15), "Freshman", "CS") >>,
      <<>>,
      << EnrollRow(Sid1, Term(2023, 10), "Freshman", "CS"),
         EnrollRow(Sid1, Term(2023, 10), "Freshman", "EE") >>,
      << EnrollRow(Sid2, Term(2023, 25), "Junior", "CS"),
         EnrollRow(Sid1, Term(2023, 5), "Freshman", "CS") >> }

InitTimeline ==
    \E ev \in SeqsUpTo(TLRows, MaxRows), enr \in Enrollments :
        InitRun(GoodConfig,
                Disk(OneFile(WithSheets([TLFixed EXCEPT !["Events"] = ev],
                                        CldcRowsA, ComRowsA, FdsRowsA)), enr, 0),
                ListArg(<<>>))

SpecTimeline == InitTimeline /\ [][Next]_vars

\* ---- runs over many CLDC sheets ----

\* The rows of the Events report: after the appointment of 2023-01-05, on its
\* day, of the other Email under the same Student_ID, of the other student.
CLDCEvents ==
    { HSRow(EmailA, Sid1, IsoDate(2023, 2, 10)),
      HSRow(EmailA, Sid1, IsoDate(2023, 1, 5)),
      HSRow(EmailB, Sid1, IsoDate(2023, 2, 10)),
      HSRow(EmailB, Sid2, IsoDate(2023, 3, 1)) }

\* The rows of the referral sheet.
ApptRows ==
    { CLDCRow(EmailA, "true", JsDate(2023, 1, 5)),
      CLDCRow(EmailA, "true", JsDate(2023, 2, 10)),
      CLDCRow(EmailA, "false", JsDate(2023, 1, 1)),
      CLDCRow(EmailB, "true", JsDate(2023, 1, 5)) }

InitCLDC ==
    \E ev \in SeqsUpTo(CLDCEvents, MaxRows), sheet \in SeqsUpTo(ApptRows, MaxRows) :
        InitRun(GoodConfig,
                Disk(OneFile(WithSheets([AllTypesRows EXCEPT !["Events"] = ev],
                                        sheet, ComRowsA, FdsRowsA)), EnrBoth, 0),
                ListArg(<< <<"CLDC">> >>))

SpecCLDC == InitCLDC /\ [][Next]_vars

\* ---- runs over many FDS sheets ----

Sid3 == <<3>>

\* The rows of the Events report: of student 1 before the response of
\* 2023-04-30 and on its day, of student 2 before it.
FDSEvents ==
    { HSRow(EmailA, Sid1, IsoDate(2023, 2, 10)),
      HSRow(EmailA, Sid1, IsoDate(2023, 4, 30)),
      HSRow(EmailB, Sid2, IsoDate(2023, 3, 1)),
      HSRow(EmailA, Sid1, IsoDate(2022, 10, 5)) }

\* The enrollment of the survey runs: student 1 is a Freshman in Fall 2022 and
\* a Sophomore in 2023, student 2 a Senior.
EnrFDS ==
    << EnrollRow(Sid1, Term(2022, 40), "Freshman", "CS"),
       EnrollRow(Sid1, Term(2023, 10), "Sophomore", "CS"),
       EnrollRow(Sid2, Term(2023, 10), "Senior", "CS"),
       EnrollRow(Sid1, Term(2023, 40), "Sophomore", "CS") >>

\* An Applications row of student 1 after every response, in the Fall term,
\* and a Logins row of student 1 before every response.
FDSFixed == [t \in ReportTypes |->
    IF t = "Applications" THEN << HSRow(EmailA, Sid1, IsoDate(2023, 9, 5)) >>
    ELSE IF t = "Logins" THEN << HSRow(EmailA, Sid1, IsoDate(2023, 2, 1)) >>
    ELSE <<>>]

\* The rows of the survey sheet: two responses of student 1 that differ in the
\* date and the outcome, a respondent who is in no report and in no enrollment, a response
\* without outcome and a graduate.
FDSResponses ==
    { FDSRow(Sid1, IsoDate(2023, 4, 30), "Undergraduate", Str("Employed Full-Time")),
      FDSRow(Sid1, IsoDate(2023, 3, 1), "Undergraduate", Str("Seeking Employment")),
      FDSRow(Sid3, IsoDate(2023, 4, 30), "Undergraduate", Str("Seeking Employment")),
      FDSRow(Sid2, IsoDate(2023, 4, 30), "Undergraduate", NaN),
      FDSRow(Sid2, IsoDate(2023, 4, 30), "Graduate", Str("Employed Part-Time")) }

InitFDS ==
    \E ev \in SeqsUpTo(FDSEvents, MaxRows), sheet \in SeqsUpTo(FDSResponses, MaxRows), seed \in {0, 1} :
        InitRun(GoodConfig,
                Disk(OneFile(WithSheets([FDSFixed EXCEPT !["Events"] = ev],
                                        CldcRowsA, ComRowsA, sheet)), EnrFDS, seed),
                ListArg(<< <<"FDS">> >>))

SpecFDS == InitFDS /\ [][Next]_vars

\* ---- runs over many attendance sheets: the student groups of COM1100 ----

\* The rows of the attendance sheet: two presentations of student 1, a row of
\* student 2 without Email and one with, and a row without Student_ID.
ComRows ==
    { COMRow(EmailA, Sid1, IsoDate(2023, 1, 20)),
      COMRow(EmailA, Sid1, IsoDate(2023, 9, 10)),
      COMRow(NaN, Sid2, IsoDate(2023, 1, 20)),
      COMRow(EmailB, Sid2, IsoDate(2023, 2, 1)),
      COMRow(EmailB, NaN, IsoDate(2023, 2, 1)) }

\* Enrollment files: three freshmen of eligible terms; a freshman of Winter
\* 2022 and of a Summer term and a Sophomore; a freshman of two eligible terms
\* and a row without Student_ID.
ComEnrollments ==
    { << EnrollRow(Sid1, Term(2023, 10), "Freshman", "CS"),
         EnrollRow(Sid2, Term(2023, 10), "Freshman", "CS"),
         EnrollRow(Sid3, Term(2022, 40), "Freshman", "CS") >>,
      << EnrollRow(Sid2, Term(2022, 10), "Freshman", "CS"),
         EnrollRow(Sid3, Term(2023, 10), "Sophomore", "CS"),
         EnrollRow(Sid2, Term(2022, 30), "Freshman", "CS") >>,
      << EnrollRow(Sid3, Term(2023, 40), "Freshman", "CS"),
         EnrollRow(Sid3, Term(2023, 10), "Freshman", "CS"),
         EnrollRow(NaN, Term(2023, 10), "Freshman", "CS") >> }

InitCOM ==
    \E sheet \in SeqsUpTo(ComRows, MaxRows), enr \in ComEnrollments,
       rd \in {ListArg(<<>>), ListArg(<< <<"COM1100">> >>)} :
        InitRun(GoodConfig,
                Disk(OneFile(WithSheets(AllTypesRows, CldcRowsA, sheet, FdsRowsA)), enr, 0),
                rd)

SpecCOM == InitCOM /\ [][Next]_vars

\* ---- runs over many disks and configurations: what a Report loads ----

\* The endings of the file names of a report type ("10" sorts before "2").
Suffixes == { <<1>>, <<2>>, <<1, 0>>, <<9>> }
SuffixSets == {S \in SUBSET Suffixes : Cardinality(S) <= MaxFiles}

\* The rows of the file <title><suf> of type t: the day of the engagement is
\* the number the name ends with.
RowsOfFile(t, suf) ==
    IF t = "CLDC_Report" THEN CldcRowsA
    ELSE IF t = "COM1100_Report" THEN ComRowsA
    ELSE IF t = "FDS" THEN FdsRowsA
    ELSE << HSRow(EmailA, Sid1, IsoDate(2023, 2, StrToInt(suf))) >>

\* Configurations: complete, or one section without some of its required keys.
Configs ==
    {GoodConfig} \cup
    {[GoodConfig EXCEPT ![t] = FullKeys(t) \ K] :
        t \in {"Applications", "Logins", "CLDC_Report", "FDS"},
        K \in {{"Student_ID"}, {"Date"}, {"path"}, {"Email"}, ReqCols}}

InitLoader ==
    \E cfg \in Configs, hs \in SuffixSets, sheets \in SuffixSets,
       rd \in {ListArg(<< <<"CLDC">>, <<"FDS">> >>), ListArg(<< <<"COM1100">> >>)} :
        InitRun(cfg,
                Disk([t \in ReportTypes |->
                        [suf \in (IF t \in Range(reports) THEN hs ELSE sheets) |-> RowsOfFile(t, suf)]],
                     EnrBoth, 0),
                rd)

SpecLoader == InitLoader /\ [][Next]_vars

\* ---- runs over every month: the semester keys ----

EnrAllTerms ==
    << EnrollRow(Sid1, Term(2022, 10), "Freshman", "CS"),
       EnrollRow(Sid1, Term(2022, 30), "Freshman", "CS"),
       EnrollRow(Sid1, Term(2022, 40), "Freshman", "CS"),
       EnrollRow(Sid1, Term(2023, 10), "Freshman", "CS"),
       EnrollRow(Sid1, Term(2023, 30), "Freshman", "CS"),
       EnrollRow(Sid1, Term(2023, 40), "Freshman", "CS") >>

InitKey ==
    \E y \in {2022, 2023}, m \in 1..12, d \in {1, 28},
       rd \in {ListArg(<<>>), ListArg(<< <<"COM1100">> >>)} :
        InitRun(GoodConfig,
                Disk(OneFile(WithSheets(
                         [t \in ReportTypes |->
                             IF t = "Events" THEN << HSRow(EmailA, Sid1, IsoDate(y, m, d)) >> ELSE <<>>],
                         CldcRowsA, << COMRow(EmailA, Sid1, IsoDate(y, m, d)) >>, FdsRowsA)),
                     EnrAllTerms, 0),
                rd)

SpecKey == InitKey /\ [][Next]_vars

(* ---------------- properties ---------------- *)

\* The semester key of a month as the specification words it: months 1-4 are
\* "10", 5-8 "30", 9-12 "40".
SemesterKey(m) ==
    IF m \in 1..4 THEN <<1, 0>> ELSE IF m \in 5..8 THEN <<3, 0>> ELSE <<4, 0>>

\* The events that were added to the timeline, report by report.
AddedEvents == UNION {Range(contents[k].rows) : k \in 1..Len(contents)}

\* process_timeline has run and succeeded.
Processed == outputs # <<>>

\* Row r of the processed timeline is event e joined to enrollment row n.
IsJoinOf(r, e, n) ==
    /\ ~IsNull(e["Student_ID"]) /\ ~IsNull(e["Date"])
    /\ n["Student_ID"] = e["Student_ID"]
    /\ n["Year"] = Digits4(e["Date"][1])
    /\ n["Term Code"] = SemesterKey(e["Date"][2])
    /\ r["Student_ID"] = e["Student_ID"]
    /\ r["Email"] = e["Email"]
    /\ r["Event_Type"] = e["Event_Type"]
    /\ r["Date"] = Digits4(e["Date"][1]) \o Digits2(e["Date"][2]) \o Digits2(e["Date"][3])
    /\ r["term_code_key"] = n["term_code_key"]
    /\ r["college_year"] = n["college_year"]
    /\ r["college_major"] = n["college_major"]

\* C1: after process_timeline every row of the timeline is an added event with a
\* Student_ID, joined to an enrollment row of that Student_ID whose Year is the
\* calendar year of the event and whose term code is the semester key of the
\* month of the event; so an event without such an enrollment row, an event
\* without Student_ID and an enrollment row without event are in no row.
C1_TimelineRowsMatchEnrollment ==
    Processed =>
        \A i \in 1..Len(timeline.rows) :
            \E e \in AddedEvents : \E j \in 1..Len(enrollment.rows) :
                IsJoinOf(timeline.rows[i], e, enrollment.rows[j])

\* A processed timeline with a row, built from events of which one has no
\* Student_ID and one has a Student_ID but no enrollment row of its year and
\* term, and from an enrollment row that no event matches.
C1_Witness ==
    /\ Processed
    /\ timeline.rows # <<>>
    /\ \E e \in AddedEvents : IsNull(e["Student_ID"])
    /\ \E e \in AddedEvents :
          /\ ~IsNull(e["Student_ID"]) /\ ~IsNull(e["Date"])
          /\ \E j \in 1..Len(enrollment.rows) : enrollment.rows[j]["Student_ID"] = e["Student_ID"]
          /\ \A j \in 1..Len(enrollment.rows) :
                ~(/\ enrollment.rows[j]["Student_ID"] = e["Student_ID"]
                  /\ enrollment.rows[j]["Year"] = Digits4(e["Date"][1])
                  /\ enrollment.rows[j]["Term Code"] = SemesterKey(e["Date"][2]))
    /\ \E j \in 1..Len(enrollment.rows) :
          \A i \in 1..Len(timeline.rows) :
              timeline.rows[i]["term_code_key"] # enrollment.rows[j]["term_code_key"]

\* The number of rows of the first k added reports.
RECURSIVE RowsBefore(_)
RowsBefore(k) == IF k = 0 THEN 0 ELSE RowsBefore(k - 1) + Len(contents[k].rows)

\* C2: create_timeline leaves the rows of the added reports one after the other
\* in the order the reports were added, each row once, with the columns Email,
\* Student_ID, Date and Event_Type.
C2_TimelineIsConcatenation ==
    pc = "process_timeline" =>
        /\ timeline.cols = {"Email", "Student_ID", "Date", "Event_Type"}
        /\ Len(timeline.rows) = RowsBefore(Len(contents))
        /\ \A k \in 1..Len(contents) : \A i \in 1..Len(contents[k].rows) :
              /\ contents[k].rows[i]["Event_Type"] = Str(reports[k])
              /\ \A c \in {"Email", "Student_ID", "Date", "Event_Type"} :
                    timeline.rows[RowsBefore(k - 1) + i][c] = contents[k].rows[i][c]

\* A timeline just created from five added reports of which three have rows, one two rows.
C2_Witness ==
    /\ pc = "process_timeline"
    /\ Len(contents) = 5
    /\ Cardinality({k \in 1..Len(contents) : contents[k].rows # <<>>}) >= 3
    /\ \E k \in 1..Len(contents) : Len(contents[k].rows) >= 2

\* The files on disk that match the pattern of report type t.
Matching(t) == {p \in fs.names : Len(p) >= 1 /\ p[1] = TitleOf(t)}

\* C3: the path a constructed Report resolved through get_latest_file_path is,
\* among the files that match the pattern of its type, the one that sorts last
\* as text, and None when no file matches.
C3_LatestFileSortsLast ==
    (obj.status # "none" /\ "path" \in config[obj.report_type]) =>
        IF Matching(obj.report_type) = {}
        THEN IsNull(obj.path) /\ obj.content = None
        ELSE /\ obj.path \in Matching(obj.report_type)
             /\ \A q \in Matching(obj.report_type) : q = obj.path \/ StrLess(q, obj.path)
             /\ obj.content # None

\* A Report constructed over two matching files, "..10" and "..2": it resolved "..2".
C3_Witness ==
    /\ obj.status # "none"
    /\ "path" \in config[obj.report_type]
    /\ Cardinality(Matching(obj.report_type)) = 2
    /\ \E p \in Matching(obj.report_type) : Tail(p) = <<1, 0>>
    /\ Tail(obj.path) = <<2>>

\* C4: a Report is constructed successfully only if its section of the
\* configuration has the keys Student_ID, Date, path and Email; when one is
\* missing the construction ends in the error of the key check, with the
\* content as loaded, no column renamed, and the run stops.
C4_RequiredKeysCheckedBeforeRenaming ==
    obj.status # "none" =>
        /\ obj.status = "ok" => {"Student_ID", "Date", "path", "Email"} \subseteq config[obj.report_type]
        /\ ~({"Student_ID", "Date", "path", "Email"} \subseteq config[obj.report_type]) =>
              /\ obj.status = "error"
              /\ obj.where = "req_col_check"
              /\ pc = "error"
              /\ obj.content = None \/ obj.content.cols \cap {"Email", "Student_ID", "Date"} = {}

\* A construction that ended in the error of the key check with a file loaded
\* whose columns the section could have renamed.
C4_Witness ==
    /\ obj.status = "error"
    /\ obj.where = "req_col_check"
    /\ obj.content # None
    /\ obj.content.rows # <<>>
    /\ config[obj.report_type] \cap {"Student_ID", "Date", "Email"} # {}

\* What the generators give on the processed timeline as process_timeline left
\* it (outputs[1]), whatever ran before them.
CLDCAlone == CLDCGenerate(ReportInit(config, fs, "CLDC_Report").content, outputs[1], fs.seed)
COM1100Alone ==
    COM1100Generate(ReportInit(config, fs, "COM1100_Report").content, config,
                    add_enrollment(config, fs, TRUE).enrollment, outputs[1])
FDSAlone(b) == FDSGenerate(ReportInit(config, fs, "FDS").content, config, outputs[1], fs.seed, b)

GeneratorsLeaveInputs ==
    Processed =>
        /\ timeline = outputs[1]
        /\ enrollment = add_enrollment(config, fs, TRUE).enrollment
        /\ cldc.status = "ok" => cldc = CLDCAlone
        /\ com1100.status = "ok" => com1100 = COM1100Alone
        /\ fds.status = "ok" => \E b \in BOOLEAN : fds = FDSAlone(b)

GeneratorStepKeepsInputs ==
    pc \in {"CLDC", "COM1100", "FDS"} => timeline' = timeline /\ enrollment' = enrollment

\* C5: the steps of the three report generators leave the processed timeline
\* and the processed enrollment as they were, and what a generator produced is
\* what it produces from the processed timeline alone, whichever generators ran
\* before it.
C5_GeneratorsLeaveTimelineAndEnrollment ==
    /\ []GeneratorsLeaveInputs
    /\ [][GeneratorStepKeepsInputs]_vars

\* The CLDC and the FDS generator both ran and produced their reports.
C5_Witness ==
    /\ pc = "write"
    /\ cldc.status = "ok"
    /\ fds.status = "ok"
    /\ timeline.rows # <<>>
    /\ Len(outputs) = 5

\* Report name X is in the comma-separated list given to --add_report_output,
\* the list of all three when the option is omitted.
NamedOnCommandLine(X) ==
    \/ reports_desired.kind = "str"
    \/ \E i \in 1..Len(reports_desired.words) :
          \E j \in 1..Len(reports_desired.words[i]) : reports_desired.words[i][j] = X

WrittenPaths == {written[i].path : i \in 1..Len(written)}

ReportPaths(X) ==
    IF X = "CLDC" THEN {"outputs/cldc_agg.csv", "outputs/cldc_melt.csv"}
    ELSE IF X = "COM1100" THEN {"outputs/COM1100_agg.csv", "outputs/COM1100_melt.csv"}
    ELSE {"outputs/fds_agg.csv", "outputs/fds_melt.csv"}

\* C6: a run that ends has written outputs/timeline.csv, and has written the
\* aggregate and the melt of a report exactly when the name of the report is in
\* the comma-separated list of --add_report_output.
C6_OutputsFollowCommandLine ==
    pc = "done" =>
        /\ "outputs/timeline.csv" \in WrittenPaths
        /\ \A X \in {"CLDC", "COM1100", "FDS"} :
              IF NamedOnCommandLine(X) THEN ReportPaths(X) \subseteq WrittenPaths
              ELSE ReportPaths(X) \cap WrittenPaths = {}

\* The month of a date written %Y%m%d.
MonthOfYmd(d) == StrToInt(SubSeq(d, 5, 6))

\* C7: the semester key is "10" for the months 1-4, "30" for 5-8 and "40" for
\* 9-12, for every month; the Key of a row of the processed timeline and the
\* term_code_key of a COM1100 presentation (its year followed by the key) both
\* follow it.
C7_SemesterKeyByMonth ==
    /\ \A m \in 1..12 :
          /\ m \in DOMAIN months_2key_dict
          /\ months_2key_dict[m][1] = SemesterKey(m)
          /\ m \in DOMAIN com_months_2key_dict
          /\ IntToStr(com_months_2key_dict[m]) = SemesterKey(m)
    /\ Processed =>
          /\ \A e \in AddedEvents :
                (~IsNull(e["Date"]) /\ ~IsNull(e["Student_ID"])) =>
                    \E i \in 1..Len(timeline.rows) : MonthOfYmd(timeline.rows[i]["Date"]) = e["Date"][2]
          /\ \A i \in 1..Len(timeline.rows) :
                timeline.rows[i]["Key"] = SemesterKey(MonthOfYmd(timeline.rows[i]["Date"]))
    /\ (com1100.status # "none" /\ com1100.comm_df # None) =>
          \A i \in 1..Len(com1100.comm_df.rows) :
              com1100.comm_df.rows[i]["term_code_key"] =
                  SubSeq(com1100.comm_df.rows[i]["Date"], 1, 4)
                      \o SemesterKey(MonthOfYmd(com1100.comm_df.rows[i]["Date"]))

\* A run with an event and a presentation in April: the last month of "10".
C7_Witness ==
    /\ Processed
    /\ \E i \in 1..Len(timeline.rows) :
          MonthOfYmd(timeline.rows[i]["Date"]) = 4 /\ timeline.rows[i]["Key"] = <<1, 0>>
    /\ com1100.status # "none"
    /\ com1100.comm_df # None
    /\ \E i \in 1..Len(com1100.comm_df.rows) :
          /\ MonthOfYmd(com1100.comm_df.rows[i]["Date"]) = 4
          /\ com1100.comm_df.rows[i]["term_code_key"] = <<2, 0, 2, 3, 1, 0>>

\* The CLDC generator built its aggregate df_agg.
AggBuilt == cldc.status # "none" /\ cldc.agg # None

\* The referral sheet as the CLDC report holds it.
Sheet == ReportInit(config, fs, "CLDC_Report").content

CompletedEmails ==
    {Sheet.rows[i]["Email"] : i \in {k \in 1..Len(Sheet.rows) : Sheet.rows[k]["Completed"] = Str("true")}}

\* The date %Y%m%d of the text of a cell of the sheet.
SheetDate(text) == Strftime(ParseBdY(Slice(text, 4, 15)))

\* The dates of the engagements of type c of Email e under Student_ID sid in
\* the timeline that are later than every retained appointment of e.
LaterDates(e, sid, c) ==
    {timeline.rows[k]["Date"] : k \in {x \in 1..Len(timeline.rows) :
        /\ timeline.rows[x]["Email"] = e
        /\ timeline.rows[x]["Student_ID"] = sid
        /\ timeline.rows[x]["Event_Type"] = Str(c)
        /\ \A j \in 1..Len(cldc.cldc_df.rows) :
              cldc.cldc_df.rows[j]["Email"] = e =>
                  StrToInt(timeline.rows[x]["Date"]) > StrToInt(cldc.cldc_df.rows[j]["Date"])}}

\* C8: a count of the CLDC aggregate counts no more than the engagements of the
\* Email that are strictly later than the retained appointment of the Email;
\* that appointment is a completed appointment of the sheet, and an Email
\* without completed appointment has no row.
C8_OnlyEngagementsAfterAppointment ==
    AggBuilt =>
        \A i \in 1..Len(cldc.agg.rows) :
            /\ cldc.agg.rows[i]["Email"] \in CompletedEmails
            /\ \E j \in 1..Len(cldc.cldc_df.rows) :
                  /\ cldc.cldc_df.rows[j]["Email"] = cldc.agg.rows[i]["Email"]
                  /\ \E k \in 1..Len(Sheet.rows) :
                        /\ Sheet.rows[k]["Email"] = cldc.agg.rows[i]["Email"]
                        /\ Sheet.rows[k]["Completed"] = Str("true")
                        /\ SheetDate(Sheet.rows[k]["Date"]) = cldc.cldc_df.rows[j]["Date"]
            /\ \A c \in EventTypes \cap cldc.agg.cols :
                  cldc.agg.rows[i][c][1] <=
                      Cardinality(LaterDates(cldc.agg.rows[i]["Email"],
                                             cldc.agg.rows[i]["Student_ID"], c))

\* An aggregate with a count, from a sheet with an appointment that is not
\* completed and a timeline with an engagement on the day of the appointment.
C8_Witness ==
    /\ cldc.status = "ok"
    /\ \E i \in 1..Len(cldc.agg.rows) : cldc.agg.rows[i]["Events"][1] >= 1
    /\ \E k \in 1..Len(Sheet.rows) : Sheet.rows[k]["Completed"] # Str("true")
    /\ \E x \in 1..Len(timeline.rows) : \E j \in 1..Len(cldc.cldc_df.rows) :
          /\ timeline.rows[x]["Email"] = cldc.cldc_df.rows[j]["Email"]
          /\ timeline.rows[x]["Date"] = cldc.cldc_df.rows[j]["Date"]

\* The CLDC generator has run past the reading of the sheet, the check of the
\* timeline columns and the merge: what is left is the aggregate and the melt.
CLDCMerged == cldc.status # "none" /\ cldc.where \notin {"process", "columns", "merge"}

\* C9: when the CLDC generator has merged the sheet and the timeline, it returns
\* an aggregate in which every Email with a completed appointment has a row,
\* and every row has, for each of the five event types, the number of distinct
\* engagements of that type after the appointment: 0 when there is none.
C9_EveryCompletedEmailInAggregate ==
    CLDCMerged =>
        /\ cldc.status = "ok"
        /\ \A e \in CompletedEmails : \E i \in 1..Len(cldc.agg.rows) : cldc.agg.rows[i]["Email"] = e
        /\ \A i \in 1..Len(cldc.agg.rows) : \A c \in EventTypes :
              /\ c \in cldc.agg.cols
              /\ cldc.agg.rows[i][c][1] =
                    Cardinality(LaterDates(cldc.agg.rows[i]["Email"],
                                           cldc.agg.rows[i]["Student_ID"], c))

\* C10: when the aggregate is built the melt has one row for every row of the
\* aggregate and every one of the five event types, with Email, Student_ID and
\* the count of the aggregate, 0 where the type has no engagement.
C10_MeltHasRowPerEventType ==
    AggBuilt =>
        /\ cldc.melt # None
        /\ Len(cldc.melt.rows) = 5 * Len(cldc.agg.rows)
        /\ \A i \in 1..Len(cldc.agg.rows) : \A c \in EventTypes :
              \E k \in 1..Len(cldc.melt.rows) :
                  /\ cldc.melt.rows[k]["Email"] = cldc.agg.rows[i]["Email"]
                  /\ cldc.melt.rows[k]["Student_ID"] = cldc.agg.rows[i]["Student_ID"]
                  /\ cldc.melt.rows[k]["Event_Type"] = Str(c)
                  /\ cldc.melt.rows[k]["Count"] =
                        (IF c \in cldc.agg.cols THEN cldc.agg.rows[i][c] ELSE <<0>>)

\* The COM1100 generator reached its two calls of generate_com1100_report:
\* comm_df and the enrollment have the columns of the student groups.
ComCalled ==
    /\ com1100.status # "none"
    /\ com1100.comm_df # None
    /\ HasCols(com1100.comm_df, GroupCols \cup {"Date"})
    /\ HasCols(enrollment, GroupCols)

\* The presentation rows of the single group: the first row of comm_df per student.
SingleGroup == DropDuplicates(com1100.comm_df, {"Student_ID"})

\* The events of type c of student sid in the timeline dated from date on
\* (all of them when date is NaN).
EventsFrom(sid, c, date) ==
    {x \in 1..Len(timeline.rows) :
        /\ timeline.rows[x]["Student_ID"] = sid
        /\ timeline.rows[x]["Event_Type"] = Str(c)
        /\ IsNull(date) \/ ~StrLess(timeline.rows[x]["Date"], date)}

\* C11: when generate_com1100_report is called for the two student groups it
\* returns: every row of the aggregate and of the melt carries the tag single
\* or no, the melt has one row per aggregate row and event type, a row tagged
\* single counts the events of the student dated on or after the presentation
\* and a row tagged no counts all the events of the student.
C11_Com1100ReportCountsPerGroup ==
    ComCalled =>
        /\ com1100.status = "ok"
        /\ Len(com1100.melt.rows) = 5 * Len(com1100.agg.rows)
        /\ \A k \in 1..Len(com1100.melt.rows) : com1100.melt.rows[k]["Tag"] \in {Str("single"), Str("no")}
        /\ \A i \in 1..Len(com1100.agg.rows) : \A c \in EventTypes :
              /\ com1100.agg.rows[i]["Tag"] \in {Str("single"), Str("no")}
              /\ com1100.agg.rows[i]["Tag"] = Str("no") =>
                    com1100.agg.rows[i][c][1] =
                        Cardinality(EventsFrom(com1100.agg.rows[i]["Student_ID"], c, NaN))
              /\ com1100.agg.rows[i]["Tag"] = Str("single") =>
                    \E j \in 1..Len(SingleGroup.rows) :
                        /\ SingleGroup.rows[j]["Student_ID"] = com1100.agg.rows[i]["Student_ID"]
                        /\ com1100.agg.rows[i][c][1] =
                              Cardinality(EventsFrom(com1100.agg.rows[i]["Student_ID"], c,
                                                     SingleGroup.rows[j]["Date"]))

\* The survey sheet as the FDS report holds it, and its Student_ID column as
\* generate_reports renames it.
FdsSheet == rename_columns(ReportInit(config, fs, "FDS").content, config["Enrollment"])

\* A date of the sheet (%Y-%m-%d) and a date of the timeline (%Y%m%d) as numbers.
IsoAsInt(text) == StrToInt(SubSeq(text, 1, 4) \o SubSeq(text, 6, 7) \o SubSeq(text, 9, 10))

\* The pairs of a response k of the sheet and an event x of the timeline of the
\* same student, the event dated strictly before the response.
BeforeResponse ==
    {p \in (1..Len(FdsSheet.rows)) \X (1..Len(timeline.rows)) :
        /\ timeline.rows[p[2]]["Student_ID"] = FdsSheet.rows[p[1]]["Student_ID"]
        /\ StrToInt(timeline.rows[p[2]]["Date"]) < IsoAsInt(FdsSheet.rows[p[1]]["Date"])}

\* Those of student sid whose event is counted in column c.
CountedIn(sid, c) ==
    {p \in BeforeResponse :
        /\ timeline.rows[p[2]]["Student_ID"] = sid
        /\ CountCol(timeline.rows[p[2]]["Event_Type"][1], timeline.rows[p[2]]["college_year"][1]) = c}

\* The number in a count cell of the FDS aggregate.
CellCount(v) == v[1]

Respondents ==
    {FdsSheet.rows[k]["Student_ID"] : k \in {x \in 1..Len(FdsSheet.rows) :
        /\ FdsSheet.rows[x]["college_level"] = Str("Undergraduate")
        /\ ~IsNull(FdsSheet.rows[x]["outcome"])}}

C13_WitnessOnce ==
    /\ fds.status = "ok"
    /\ \E k, l \in 1..Len(FdsSheet.rows) :
          /\ FdsSheet.rows[k]["Student_ID"] = FdsSheet.rows[l]["Student_ID"]
          /\ FdsSheet.rows[k]["outcome"] # FdsSheet.rows[l]["outcome"]
          /\ ~IsNull(FdsSheet.rows[k]["outcome"]) /\ ~IsNull(FdsSheet.rows[l]["outcome"])
          /\ FdsSheet.rows[k]["college_level"] = Str("Undergraduate")
          /\ FdsSheet.rows[l]["college_level"] = Str("Undergraduate")

\* The enrollment file as read_csv gives it.
EnrollmentFile == fs.data[EnrollmentPath]

\* C14: the enrollment add_enrollment(process=True) leaves has no two identical
\* rows, every row has a college_year of the four undergraduate years, a Term
\* Code of 10, 30 or 40 and as Year the first four characters of its
\* term_code_key; add_enrollment(process=False) leaves the rows of the file.
C14_ProcessedEnrollmentInvariants ==
    /\ enrollment # None =>
          /\ \A i, j \in 1..Len(enrollment.rows) :
                enrollment.rows[i] = enrollment.rows[j] => i = j
          /\ \A i \in 1..Len(enrollment.rows) :
                /\ enrollment.rows[i]["college_year"] \in
                      {Str("Freshman"), Str("Sophomore"), Str("Junior"), Str("Senior")}
                /\ enrollment.rows[i]["Term Code"] \in {<<1, 0>>, <<3, 0>>, <<4, 0>>}
                /\ enrollment.rows[i]["Year"] = Slice(enrollment.rows[i]["term_code_key"], 0, 4)
    /\ EnrollmentPath \in fs.names =>
          add_enrollment(config, fs, FALSE) = [status |-> "ok", enrollment |-> EnrollmentFile]

\* A processed enrollment of one row from a file of two identical rows.
C14_Witness ==
    /\ enrollment # None
    /\ Len(enrollment.rows) = 1
    /\ Len(EnrollmentFile.rows) = 2
    /\ EnrollmentFile.rows[1] = EnrollmentFile.rows[2]

\* The row of the processed enrollment that keeps row r of the renamed file
\* with the Term Code code.
KeptWith(df, r, code) ==
    \E i \in 1..Len(enrollment.rows) :
        /\ \A c \in df.cols : enrollment.rows[i][c] = r[c]
        /\ enrollment.rows[i]["Term Code"] = code

SeasonalKept(df) ==
    \A k \in 1..Len(df.rows) :
        df.rows[k]["college_year"] \in
            {Str("Freshman"), Str("Sophomore"), Str("Junior"), Str("Senior")} =>
        /\ LastChars(df.rows[k]["term_code_key"], 2) = <<3, 5>> => KeptWith(df, df.rows[k], <<4, 0>>)
        /\ LastChars(df.rows[k]["term_code_key"], 2) = <<2, 5>> => KeptWith(df, df.rows[k], <<3, 0>>)
        /\ ( /\ LastChars(df.rows[k]["term_code_key"], 1) = <<5>>
             /\ LastChars(df.rows[k]["term_code_key"], 2) \notin {<<3, 5>>, <<2, 5>>} )
              => KeptWith(df, df.rows[k], <<1, 0>>)

\* C15: an undergraduate enrollment row whose term code ends in 35 is kept with
\* Term Code 40, one whose term code ends in 25 with Term Code 30, and one
\* whose term code ends in 5 with Term Code 10; the Term Code filter drops none.
C15_SeasonalTermCodesAreKept ==
    enrollment # None => SeasonalKept(rename_columns(EnrollmentFile, config["Enrollment"]))

\* The count of a row in a column, 0 where the aggregate has no such column.
CountAt(r, c) == IF c \in DOMAIN r THEN r[c][1] ELSE 0

\* The melted rows that stand for the column e y of the aggregate row r.
MeltedOf(r, e, y) ==
    {k \in 1..Len(fds.melt.rows) :
        /\ fds.melt.rows[k]["Student_ID"] = r["Student_ID"]
        /\ fds.melt.rows[k]["Event_Type"] = Str(e)
        /\ fds.melt.rows[k]["Year"] = Str(y)}

\* C16: the FDS melt has, for every aggregate row and every count column
\* '<Event_Type> <college_year>', exactly one row, with that Event_Type, that
\* Year and the aggregate's value as Count, and no other row (no identifier or
\* Total column is melted); every Total column is the sum of the student's
\* count columns of its event type over the college years.
C16_FDSMeltIsLosslessReshape ==
    fds.status = "ok" =>
        /\ fds.agg.cols \ FDSMeltIds \subseteq CountCols
        /\ Len(fds.melt.rows) = Len(fds.agg.rows) * Cardinality(fds.agg.cols \cap CountCols)
        /\ \A i \in 1..Len(fds.agg.rows) : \A e \in EventTypes :
              /\ \A y \in CollegeYears :
                    CountCol(e, y) \in fds.agg.cols =>
                       /\ Cardinality(MeltedOf(fds.agg.rows[i], e, y)) = 1
                       /\ \A k \in MeltedOf(fds.agg.rows[i], e, y) :
                             /\ fds.melt.rows[k]["Count"] = fds.agg.rows[i][CountCol(e, y)]
                             /\ \A c \in FDSMeltIds : fds.melt.rows[k][c] = fds.agg.rows[i][c]
              /\ \A t \in TotalCols :
                    TotalOf(t) = e =>
                       fds.agg.rows[i][t] =
                          << CountAt(fds.agg.rows[i], CountCol(e, "Freshman"))
                             + CountAt(fds.agg.rows[i], CountCol(e, "Sophomore"))
                             + CountAt(fds.agg.rows[i], CountCol(e, "Junior"))
                             + CountAt(fds.agg.rows[i], CountCol(e, "Senior")) >>

\* An aggregate of two students in which student 1 has one event as a Freshman
\* and one as a Sophomore, a Total Events of 2, and a melt of four rows or more.
C16_Witness ==
    /\ fds.status = "ok"
    /\ Len(fds.agg.rows) = 2
    /\ Len(fds.melt.rows) >= 4
    /\ \E i \in 1..Len(fds.agg.rows) :
          /\ CountAt(fds.agg.rows[i], "Events Freshman") = 1
          /\ CountAt(fds.agg.rows[i], "Events Sophomore") = 1
          /\ fds.agg.rows[i]["Total Events"] = <<2>>

\* C17: when no file matches the pattern of a report type whose section has
\* the required keys, the constructed Report holds the content None: a base
\* Report (CLDC, COM1100, FDS) is constructed without error, while the
\* construction of an HSReport ends in the error of the date typing, the run
\* stops and the report is not among those added to the timeline.
C17_MissingFileLeavesContentNone ==
    ( /\ obj.status # "none"
      /\ Matching(obj.report_type) = {}
      /\ {"Student_ID", "Date", "path", "Email"} \subseteq config[obj.report_type] ) =>
        /\ obj.content = None
        /\ obj.report_type \in {"CLDC_Report", "COM1100_Report", "FDS"} =>
              obj.status = "ok" /\ obj.where = "done"
        /\ obj.report_type \in Range(reports) =>
              /\ obj.status = "error"
              /\ obj.where = "col_typing"
              /\ pc = "error"
              /\ Len(contents) < Len(reports)
              /\ reports[Len(contents) + 1] = obj.report_type
              /\ timeline = None

\* A CLDCReport constructed without error over a disk with no CLDC file: its
\* content is None.
C17_Witness ==
    /\ obj.report_type = "CLDC_Report"
    /\ obj.status = "ok"
    /\ obj.content = None
    /\ Matching("CLDC_Report") = {}

\* The day of an appointment of the sheet as %Y%m%d.
ApptDay(raw) == Strftime(ParseBdY(Slice(raw, 4, 15)))

\* The completed appointments of an Email in the sheet.
CompletedOf(sheet, email) ==
    {i \in 1..Len(sheet.rows) :
        sheet.rows[i]["Email"] = email /\ sheet.rows[i]["Completed"] = Str("true")}

\* The rows the dedup step retains of an Email.
RetainedOf(cldc_df, email) == {k \in 1..Len(cldc_df.rows) : cldc_df.rows[k]["Email"] = email}

LatestRetained(sheet, cldc_df) ==
    \A i \in 1..Len(sheet.rows) :
        sheet.rows[i]["Completed"] = Str("true") =>
            /\ Cardinality(RetainedOf(cldc_df, sheet.rows[i]["Email"])) = 1
            /\ \A k \in RetainedOf(cldc_df, sheet.rows[i]["Email"]) :
                  /\ \E j \in CompletedOf(sheet, sheet.rows[i]["Email"]) :
                        cldc_df.rows[k]["Date"] = ApptDay(sheet.rows[j]["Date"])
                  /\ \A j \in CompletedOf(sheet, sheet.rows[i]["Email"]) :
                        ~StrLess(cldc_df.rows[k]["Date"], ApptDay(sheet.rows[j]["Date"]))

\* C18: after the dedup step of CLDCReport.generate_reports every Email with a
\* completed appointment has exactly one retained appointment row, and its date
\* is the latest date among the completed appointments of that Email.
C18_DedupKeepsLatestAppointment ==
    ( /\ cldc.status # "none"
      /\ cldc.cldc_df # None
      /\ obj.report_type = "CLDC_Report" ) =>
        LatestRetained(obj.content, cldc.cldc_df)

\* The students of the no group: the eligible freshmen in no row of comm_df.
NoGroup == NoCom1100(com1100.comm_df, config, enrollment)

\* The Student_IDs of the rows of the attendance sheet, and of its rows that
\* carry an Email.
OnSheet == {obj.content.rows[k]["Student_ID"] : k \in 1..Len(obj.content.rows)}
OnSheetWithEmail ==
    {obj.content.rows[k]["Student_ID"] :
        k \in {x \in 1..Len(obj.content.rows) : ~IsNull(obj.content.rows[x]["Email"])}}

\* A Freshman row of the enrollment of student sid in the term tck, a Fall or
\* Winter term from 2022 to the year of the run other than Winter 2022.
EligibleFreshman(sid, tck) ==
    /\ \E y \in 2022..NowYear, code \in {10, 40} :
          tck = Term(y, code) /\ ~(y = 2022 /\ code = 10)
    /\ \E k \in 1..Len(enrollment.rows) :
          /\ enrollment.rows[k]["Student_ID"] = sid
          /\ enrollment.rows[k]["term_code_key"] = tck
          /\ enrollment.rows[k]["college_year"] = Str("Freshman")

\* The two groups are disjoint, the students of the no group are eligible
\* freshmen who are not in attended, those of the single group are on the sheet.
GroupsAgainst(attended) ==
    /\ \A i \in 1..Len(SingleGroup.rows) : \A j \in 1..Len(NoGroup.rows) :
          SingleGroup.rows[i]["Student_ID"] # NoGroup.rows[j]["Student_ID"]
    /\ \A j \in 1..Len(NoGroup.rows) :
          /\ EligibleFreshman(NoGroup.rows[j]["Student_ID"], NoGroup.rows[j]["term_code_key"])
          /\ NoGroup.rows[j]["Student_ID"] \notin attended
          /\ \A j2 \in 1..Len(NoGroup.rows) :
                NoGroup.rows[j2]["Student_ID"] = NoGroup.rows[j]["Student_ID"] => j2 = j
    /\ \A i \in 1..Len(SingleGroup.rows) :
          /\ SingleGroup.rows[i]["Student_ID"] \in OnSheet
          /\ \A i2 \in 1..Len(SingleGroup.rows) :
                SingleGroup.rows[i2]["Student_ID"] = SingleGroup.rows[i]["Student_ID"] => i2 = i

FileOrder ==
    << "outputs/timeline.csv", "outputs/cldc_agg.csv", "outputs/cldc_melt.csv",
       "outputs/COM1100_agg.csv", "outputs/COM1100_melt.csv",
       "outputs/fds_agg.csv", "outputs/fds_melt.csv" >>

OrderIndex(p) == CHOOSE i \in 1..Len(FileOrder) : FileOrder[i] = p

\* Every report the run selects has been generated.
SelectedBuilt ==
    /\ InDesired("CLDC", reports_desired) => cldc.status = "ok"
    /\ InDesired("COM1100", reports_desired) => com1100.status = "ok"
    /\ InDesired("FDS", reports_desired) => fds.status = "ok"

\* A run that ended in an error has written nothing; once a file is written
\* the timeline is processed, every selected report is generated, the first
\* file is timeline.csv and the files follow the order timeline, CLDC,
\* COM1100, FDS.
WritesAfterBuilds ==
    /\ pc = "error" => written = <<>>
    /\ written # <<>> =>
          /\ pc \in {"write", "done"}
          /\ timeline # None
          /\ SelectedBuilt
          /\ written[1].path = "outputs/timeline.csv"
          /\ \A i, j \in 1..Len(written) :
                i < j => OrderIndex(written[i].path) < OrderIndex(written[j].path)

\* A step that writes is a step of the write loop and adds one file.
WriteStep ==
    written' # written =>
        /\ pc = "write"
        /\ Len(written') = Len(written) + 1
        /\ SubSeq(written', 1, Len(written)) = written

\* C20: no output file is written before the timeline and every selected
\* report have been built, so a run that ends in an error writes no file; the
\* files are written by the final loop alone, timeline.csv first and then the
\* reports in the order CLDC, COM1100, FDS.
C20_NoWriteBeforeAllReportsBuilt == [] WritesAfterBuilds /\ [][WriteStep]_vars

\* A run that has written timeline.csv and then the two files of a report.
C20_Witness ==
    /\ pc = "done"
    /\ Len(written) >= 3
    /\ written[1].path = "outputs/timeline.csv"
    /\ SelectedBuilt
    /\ \E X \in {"CLDC", "FDS"} : InDesired(X, reports_desired)

====
